---- MODULE Spec2Model ----
(***************************************************************************)
(* Verification model of the AR Repair Generator's parametric solid        *)
(* generation core.                                                        *)
(*                                                                         *)
(*   Spec        the iOS app: a parameter bag arrives from the suggestion  *)
(*               service, PartGenerator.generateFromAI builds the preview  *)
(*               node, OpenSCADExporter/STLExporter export it.             *)
(*   SpecRecipe  the web app's ShapeRecipeEngine.executeRecipe loop.       *)
(*   SpecWeb     the web app's generate / preview / export path.           *)
(*                                                                         *)
(* Numbers are fixed point: the real number x is the integer x * Unit.     *)
(* A Swift Optional is a sequence of length 0 (nil) or 1 (a value).        *)
(***************************************************************************)
EXTENDS Integers, Sequences, FiniteSets, TLC

\* One scene unit in fixed point: 1.0 is 100000, 0.8 is 80000.
Unit == 1000 * 100

\* A millimetre value given in tenths of a millimetre, as a fixed-point number.
MM(tenths) == tenths * (Unit \div 10)

\* Largest number of keys of a parameter bag.
MaxParams == 4

(***************************************************************************)
(* Parameter bags                                                          *)
(***************************************************************************)

\* The keys a parameter bag may hold, in the order the bags are enumerated.
KeyOrder ==
  << "phone_width", "phone_height", "phone_depth",
     "leg_length_1", "leg_length_2", "leg1", "leg2",
     "diameter", "outer_diameter", "base_diameter",
     "inner_diameter", "inner_d", "hole_diameter",
     "height", "thickness", "depth", "h",
     "length", "l", "width", "w",
     "fit_clearance", "wall_thickness", "wall", "back_thickness",
     "top_thickness" >>

Keys == { KeyOrder[i] : i \in 1..Len(KeyOrder) }

KeyIndex(k) == CHOOSE i \in 1..Len(KeyOrder) : KeyOrder[i] = k

\* The values (fixed point, millimetres) a key may carry.  Synonyms of one
\* slot carry different values, so the resolved value tells which key won.
ParamValues(k) ==
  CASE k = "phone_width"    -> { MM(600), MM(705) }
    [] k = "phone_height"   -> { MM(1200) }
    [] k = "phone_depth"    -> { MM(100) }
    [] k = "leg_length_1"   -> { MM(400) }
    [] k = "leg_length_2"   -> { MM(600) }
    [] k = "leg1"           -> { MM(350) }
    [] k = "leg2"           -> { MM(550) }
    [] k = "diameter"       -> { MM(100) }
    [] k = "outer_diameter" -> { MM(200), MM(300) }
    [] k = "base_diameter"  -> { MM(250) }
    [] k = "inner_diameter" -> { MM(270) }
    [] k = "inner_d"        -> { MM(80) }
    [] k = "hole_diameter"  -> { MM(52) }
    [] k = "height"         -> { MM(100), MM(150) }
    [] k = "thickness"      -> { MM(40) }
    [] k = "depth"          -> { MM(60) }
    [] k = "h"              -> { MM(70) }
    [] k = "length"         -> { MM(1000), MM(300) }
    [] k = "l"              -> { MM(310) }
    [] k = "width"          -> { MM(200) }
    [] k = "w"              -> { MM(210) }
    [] k = "fit_clearance"  -> { MM(5) }
    [] k = "wall_thickness" -> { MM(30) }
    [] k = "wall"           -> { MM(15) }
    [] k = "back_thickness" -> { MM(40) }
    [] k = "top_thickness"  -> { MM(35) }

MaxKeyIndex(bag) ==
  IF DOMAIN bag = {} THEN 0
  ELSE CHOOSE i \in 1..Len(KeyOrder) :
         /\ KeyOrder[i] \in DOMAIN bag
         /\ \A k \in DOMAIN bag : KeyIndex(k) <= i

EmptyBag == [k \in {} |-> 0]

WithParam(bag, key, v) ==
  [k \in DOMAIN bag \cup {key} |-> IF k = key THEN v ELSE bag[k]]

(***************************************************************************)
(* Swift optionals and unit conversion                                     *)
(***************************************************************************)
Nil == << >>
Some(v) == << v >>
OrElse(opt, default) == IF opt = Nil THEN default ELSE opt[1]

\* Which of ARManager's scene, camera and renderer are non-null, and whether
\* setupEventListeners and animate have been called.
ArObjects(scene, camera, renderer, listening) ==
  [ scene |-> scene, camera |-> camera, renderer |-> renderer, listening |-> listening ]

\* `x / 1000`: millimetres to SceneKit metres.
Div1000(x) == x \div 1000

\* `x / 2000`: a diameter in millimetres to a radius in metres.
Div2000(x) == x \div 2000

(***************************************************************************)
(* SceneKit nodes                                                          *)
(***************************************************************************)
NoGeometry == [kind |-> "none", width |-> 0, height |-> 0, length |-> 0, radius |-> 0]
SCNBox(w, h, l) == [kind |-> "box", width |-> w, height |-> h, length |-> l, radius |-> 0]
SCNCylinder(r, h) == [kind |-> "cylinder", width |-> 0, height |-> h, length |-> 0, radius |-> r]
SCNSphere(r) == [kind |-> "sphere", width |-> 0, height |-> 0, length |-> 0, radius |-> r]

Origin == << 0, 0, 0 >>

\* SCNNode(geometry:), a leaf at the origin.
SCNNode(geom) == [geometry |-> geom, position |-> Origin, childNodes |-> << >>]

\* SCNNode(), an empty parent.
EmptyNode == [geometry |-> NoGeometry, position |-> Origin, childNodes |-> << >>]

At(node, pos) == [node EXCEPT !.position = pos]

addChildNode(parent, child) ==
  [parent EXCEPT !.childNodes = Append(@, child)]

(***************************************************************************)
(* PartGenerator (iOS)                                                     *)
(***************************************************************************)

generateShim(length, width, thickness) ==
  SCNNode(SCNBox(Div1000(length), Div1000(thickness), Div1000(width)))

generateWasher(outerDiameter, innerDiameter, thickness) ==
  SCNNode(SCNCylinder(Div2000(outerDiameter), Div1000(thickness)))

generateCylinder(diameter, height) ==
  SCNNode(SCNCylinder(Div2000(diameter), Div1000(height)))

generateSphere(diameter) ==
  SCNNode(SCNSphere(Div2000(diameter)))

\* The cavity node generateCap builds: radius innerDiameter / 2000, height
\* wallHeight * 0.9, moved down by wallHeight * 0.05.
cavityNode(innerDiameter, wallHeight) ==
  At(SCNNode(SCNCylinder(Div2000(innerDiameter), (wallHeight * 9) \div 10)),
     << 0, 0 - ((wallHeight * 5) \div 100), 0 >>)

\* The cavity node is constructed and positioned but never handed to
\* parentNode.addChildNode: the returned tree holds the wall and the top.
generateCap(outerDiameter, innerDiameter, height, topThickness) ==
  LET wallHeight == Div1000(height)
      wallNode   == SCNNode(SCNCylinder(Div2000(outerDiameter), wallHeight))
      topNode    == At(SCNNode(SCNCylinder(Div2000(outerDiameter), Div1000(topThickness))),
                       << 0, (wallHeight \div 2) + Div2000(topThickness), 0 >>)
  IN  addChildNode(addChildNode(EmptyNode, wallNode), topNode)

\* getParam of generateFromAI: the value of the first name the bag holds.
RECURSIVE getParam(_, _)
getParam(parameters, names) ==
  IF names = << >> THEN Nil
  ELSE IF Head(names) \in DOMAIN parameters
       THEN Some(parameters[Head(names)])
       ELSE getParam(parameters, Tail(names))

\* The synonym lists of generateFromAI.
diameterNames      == << "diameter", "outer_diameter", "base_diameter" >>
innerDiameterNames == << "inner_diameter", "inner_d" >>
heightNames_thicknessFirst == << "thickness", "height", "depth", "h" >>
heightNames        == << "height", "thickness", "depth", "h" >>
lengthNames        == << "length", "l" >>
widthNames         == << "width", "w" >>
wallThicknessNames == << "wall_thickness", "wall" >>
leg1Names_noSynonym == << "leg_length_1" >>
leg1Names          == << "leg_length_1", "leg1" >>
leg2Names          == << "leg_length_2", "leg2" >>

\* Defaults of generateFromAI (millimetres).
defaultFitClearance     == MM(8)
defaultWallThickness    == MM(20)
defaultBackThickness    == MM(25)
defaultBracketThickness == MM(30)
defaultTopThickness     == MM(20)
defaultShimThickness    == MM(20)

\* The phone case branch: one box, outer dimensions only.
phoneCaseNode_frontWall(pw, ph, pd, fitClearance, wallThickness, backThickness) ==
  SCNNode(SCNBox(Div1000(pw + fitClearance + wallThickness * 2),
                 Div1000(ph + fitClearance + wallThickness * 2),
                 Div1000(pd + fitClearance + backThickness * 2)))
phoneCaseNode(pw, ph, pd, fitClearance, wallThickness, backThickness) ==
  SCNNode(SCNBox(Div1000(pw + fitClearance + wallThickness * 2),
                 Div1000(ph + fitClearance + wallThickness * 2),
                 Div1000(pd + fitClearance + backThickness)))

\* The bracket branch: two boxes, no holes, no fillet.
bracketNode_thinLeg(l1, l2, thickness) ==
  LET thick    == Div1000(thickness)
      leg1Node == SCNNode(SCNBox(Div1000(l1), thick, Div1000(l2)))
      leg2Node == At(SCNNode(SCNBox(Div1000(l1), Div1000(l2), thick \div 2)),
                     << 0, Div2000(l2), thick \div 2 >>)
  IN  addChildNode(addChildNode(EmptyNode, leg1Node), leg2Node)
bracketNode(l1, l2, thickness) ==
  LET thick    == Div1000(thickness)
      leg1Node == SCNNode(SCNBox(Div1000(l1), thick, Div1000(l2)))
      leg2Node == At(SCNNode(SCNBox(Div1000(l1), Div1000(l2), thick)),
                     << 0, Div2000(l2), thick \div 2 >>)
  IN  addChildNode(addChildNode(EmptyNode, leg1Node), leg2Node)

\* The last resort of generateFromAI.
defaultShim_none == EmptyNode
defaultShim == generateShim(MM(300), MM(300), MM(20))

\* PartGenerator.generateFromAI: the line it prints and the node it returns.
generateFromAI(parameters) ==
  LET diameter      == getParam(parameters, diameterNames)
      innerDiameter == getParam(parameters, innerDiameterNames)
      height        == getParam(parameters, heightNames)
      length        == getParam(parameters, lengthNames)
      width         == getParam(parameters, widthNames)
      phoneWidth    == getParam(parameters, << "phone_width" >>)
      phoneHeight   == getParam(parameters, << "phone_height" >>)
      phoneDepth    == getParam(parameters, << "phone_depth" >>)
      fitClearance  == OrElse(getParam(parameters, << "fit_clearance" >>), defaultFitClearance)
      wallThickness == OrElse(getParam(parameters, wallThicknessNames), defaultWallThickness)
      backThickness == OrElse(getParam(parameters, << "back_thickness" >>), defaultBackThickness)
      leg1          == getParam(parameters, leg1Names)
      leg2          == getParam(parameters, leg2Names)
  IN  IF phoneWidth # Nil /\ phoneHeight # Nil /\ phoneDepth # Nil
      THEN [log |-> "Phone Case/Enclosure",
            node |-> phoneCaseNode(phoneWidth[1], phoneHeight[1], phoneDepth[1],
                                   fitClearance, wallThickness, backThickness)]
      ELSE IF leg1 # Nil /\ leg2 # Nil
      THEN [log |-> "L-Bracket",
            node |-> bracketNode(leg1[1], leg2[1],
                       OrElse(getParam(parameters, << "thickness" >>), defaultBracketThickness))]
      ELSE IF diameter # Nil
      THEN IF innerDiameter # Nil /\ height # Nil
           THEN [log |-> "Cap/Lid with Top",
                 node |-> generateCap(diameter[1], innerDiameter[1], height[1],
                            OrElse(getParam(parameters, << "top_thickness" >>), defaultTopThickness))]
           ELSE IF height # Nil
           THEN [log |-> "Solid Cylinder/Knob",
                 node |-> generateCylinder(diameter[1], height[1])]
           ELSE [log |-> "Sphere/Ball", node |-> generateSphere(diameter[1])]
      ELSE IF length # Nil /\ width # Nil
      THEN [log |-> "Rectangle/Shim/Plate",
            node |-> generateShim(length[1], width[1], OrElse(height, defaultShimThickness))]
      ELSE IF height # Nil
      THEN [log |-> "Fallback cylinder",
            node |-> generateCylinder((height[1] * 15) \div 10, height[1])]
      ELSE [log |-> "Fallback to default 30x30x2mm shim", node |-> defaultShim]

(***************************************************************************)
(* OpenSCADExporter (iOS)                                                  *)
(***************************************************************************)

\* getParam of generateOpenSCADCode: a missing key reads as the default.
scadParam(parameters, names, default) == OrElse(getParam(parameters, names), default)

\* What a generated script declares: its template and its parameter lines;
\* holes counts the mounting-hole cylinders the template subtracts.
NoScad ==
  [template |-> "none", outer_diameter |-> 0, inner_diameter |-> 0, height |-> 0,
   length |-> 0, width |-> 0, top_thickness |-> 0,
   phone_width |-> 0, phone_height |-> 0, phone_depth |-> 0,
   fit_clearance |-> 0, wall_thickness |-> 0, back_thickness |-> 0,
   leg_length_1 |-> 0, leg_length_2 |-> 0, bracket_thickness |-> 0,
   hole_diameter |-> 0, holes |-> 0]

generateCapWithThreads(outerD, innerD, height, topThickness) ==
  [NoScad EXCEPT !.template = "CAP", !.outer_diameter = outerD,
                 !.inner_diameter = innerD, !.height = height,
                 !.top_thickness = topThickness]

generateSolidCylinder(diameter, height) ==
  [NoScad EXCEPT !.template = "SOLID CYLINDER", !.outer_diameter = diameter,
                 !.height = height]

generateRectangularPart(length, width, height) ==
  [NoScad EXCEPT !.template = "RECTANGULAR PART", !.length = length,
                 !.width = width, !.height = height]

generatePhoneCase(phoneWidth, phoneHeight, phoneDepth, fitClearance, wallThickness, backThickness) ==
  [NoScad EXCEPT !.template = "PHONE CASE", !.phone_width = phoneWidth,
                 !.phone_height = phoneHeight, !.phone_depth = phoneDepth,
                 !.fit_clearance = fitClearance, !.wall_thickness = wallThickness,
                 !.back_thickness = backThickness]

\* The template subtracts "Hole 1 (horizontal leg)" and "Hole 2 (vertical leg)".
generateLBracket(leg1, leg2, thickness, holeDiameter) ==
  [NoScad EXCEPT !.template = "L-BRACKET", !.leg_length_1 = leg1, !.leg_length_2 = leg2,
                 !.bracket_thickness = IF thickness > 0 THEN thickness ELSE MM(30),
                 !.hole_diameter = IF holeDiameter > 0 THEN holeDiameter ELSE MM(42),
                 !.holes = 2]

generateFallback ==
  [NoScad EXCEPT !.template = "FALLBACK", !.outer_diameter = MM(300), !.height = MM(100)]

generateOpenSCADCode(parameters) ==
  LET outerD        == scadParam(parameters, << "outer_diameter", "diameter", "base_diameter" >>, 0)
      innerD        == scadParam(parameters, << "inner_diameter", "hole_diameter" >>, 0)
      height        == scadParam(parameters, << "height", "h" >>, 0)
      length        == scadParam(parameters, << "length", "l" >>, 0)
      width         == scadParam(parameters, << "width", "w" >>, 0)
      wallThickness == scadParam(parameters, << "wall_thickness", "wall" >>, MM(15))
      topThickness  == scadParam(parameters, << "top_thickness" >>, MM(25))
      phoneWidth    == scadParam(parameters, << "phone_width" >>, 0)
      phoneHeight   == scadParam(parameters, << "phone_height" >>, 0)
      phoneDepth    == scadParam(parameters, << "phone_depth" >>, 0)
      leg1          == scadParam(parameters, << "leg_length_1", "leg1" >>, 0)
      leg2          == scadParam(parameters, << "leg_length_2", "leg2" >>, 0)
  IN  IF phoneWidth > 0 /\ phoneHeight > 0 /\ phoneDepth > 0
      THEN generatePhoneCase(phoneWidth, phoneHeight, phoneDepth,
                             scadParam(parameters, << "fit_clearance" >>, MM(8)),
                             wallThickness,
                             scadParam(parameters, << "back_thickness" >>, MM(25)))
      ELSE IF outerD > 0 /\ innerD > 0 /\ height > 0
      THEN generateCapWithThreads(outerD, innerD, height, topThickness)
      ELSE IF outerD > 0 /\ height > 0
      THEN generateSolidCylinder(outerD, height)
      ELSE IF leg1 > 0 /\ leg2 > 0
      THEN generateLBracket(leg1, leg2,
                            scadParam(parameters, << "thickness" >>, 0),
                            scadParam(parameters, << "hole_diameter" >>, 0))
      ELSE IF length > 0 /\ width > 0
      THEN generateRectangularPart(length, width, IF height > 0 THEN height ELSE MM(30))
      ELSE generateFallback

(***************************************************************************)
(* STLExporter (iOS): what the exported triangles span                     *)
(***************************************************************************)

\* Half extents of a geometry along x, y, z in its own frame.
HalfExtent(geom) ==
  CASE geom.kind = "box"      -> << geom.width \div 2, geom.height \div 2, geom.length \div 2 >>
    [] geom.kind = "cylinder" -> << geom.radius, geom.height \div 2, geom.radius >>
    [] geom.kind = "sphere"   -> << geom.radius, geom.radius, geom.radius >>
    [] OTHER                  -> << 0, 0, 0 >>

\* collectGeometries: the node's own geometry, then its children's, each
\* moved by its world transform (the part node has no parent, a child is
\* moved by its position).
collectGeometries(node) ==
  (IF node.geometry.kind = "none" THEN << >>
   ELSE << [geometry |-> node.geometry, position |-> node.position] >>)
  \o [i \in 1..Len(node.childNodes) |->
        [geometry |-> node.childNodes[i].geometry,
         position |-> << node.position[1] + node.childNodes[i].position[1],
                         node.position[2] + node.childNodes[i].position[2],
                         node.position[3] + node.childNodes[i].position[3] >>]]

SetMax(S) == CHOOSE x \in S : \A y \in S : y <= x
SetMin(S) == CHOOSE x \in S : \A y \in S : x <= y

\* The lowest and highest coordinates of the triangles extractTriangles
\* takes from a geometry, those of geometry.elements.first: the front face
\* of a box, the side of a cylinder, the whole of a sphere.
WrittenLow(geom) ==
  IF geom.kind = "box"
  THEN << 0 - HalfExtent(geom)[1], 0 - HalfExtent(geom)[2], HalfExtent(geom)[3] >>
  ELSE << 0 - HalfExtent(geom)[1], 0 - HalfExtent(geom)[2], 0 - HalfExtent(geom)[3] >>
WrittenHigh(geom) == HalfExtent(geom)

\* Extent along axis a (1 = x, 2 = y, 3 = z) of the vertices written.
ExtentAlong(placed, a) ==
  SetMax({ placed[i].position[a] + WrittenHigh(placed[i].geometry)[a] : i \in 1..Len(placed) })
  - SetMin({ placed[i].position[a] + WrittenLow(placed[i].geometry)[a] : i \in 1..Len(placed) })

\* exportToBinarySTL: nil when no triangle was collected, else the extents.
exportToBinarySTL(node) ==
  LET placed == collectGeometries(node)
  IN  IF placed = << >> THEN Nil
      ELSE Some(<< ExtentAlong(placed, 1), ExtentAlong(placed, 2), ExtentAlong(placed, 3) >>)

(***************************************************************************)
(* ShapeRecipeEngine (web)                                                 *)
(*                                                                         *)
(* A number of the web app is stored as twice its value, so that a         *)
(* diameter halves exactly.  A solid is the set of the grid points         *)
(* << x, y >> (millimetres, in the plane z = 0) that lie inside it.        *)
(***************************************************************************)

\* Grid points run from -GridHalf to GridHalf millimetres on both axes.
GridHalf == 4

Grid == { << x, y >> : x \in (0 - GridHalf)..GridHalf, y \in (0 - GridHalf)..GridHalf }

\* JavaScript values: a number, undefined, or NaN.
JsNum(n)    == [t |-> "number", v |-> n]
JsUndefined == [t |-> "undefined", v |-> 0]
JsNaN       == [t |-> "NaN", v |-> 0]

\* params.key
Prop(params, key) == IF key \in DOMAIN params THEN JsNum(params[key]) ELSE JsUndefined

\* a || b
JsOr(a, b) == IF a.t = "number" /\ a.v # 0 THEN a ELSE b

\* a / 2
JsHalf(a) == IF a.t = "number" THEN JsNum(a.v \div 2) ELSE JsNaN

\* A THREE geometry: its constructor and the three sizes handed to it.
Geometry(type, a, b, c) == [type |-> type, a |-> a, b |-> b, c |-> c]

\* The thrown Error of createPrimitive and executeRecipe, or a value.
Thrown(msg) == [ok |-> FALSE, error |-> msg, value |-> << >>]
Returned(v) == [ok |-> TRUE, error |-> "", value |-> << v >>]

createPrimitive(shape, params) ==
  CASE shape = "cylinder" ->
         Returned(Geometry("CylinderGeometry", JsHalf(Prop(params, "diameter")),
                           JsHalf(Prop(params, "diameter")), Prop(params, "height")))
    [] shape = "box" ->
         Returned(Geometry("BoxGeometry", JsOr(Prop(params, "length"), Prop(params, "width")),
                           Prop(params, "height"),
                           JsOr(Prop(params, "width"), Prop(params, "depth"))))
    [] shape = "sphere" ->
         Returned(Geometry("SphereGeometry", JsHalf(Prop(params, "diameter")),
                           JsUndefined, JsUndefined))
    [] shape = "cone" ->
         Returned(Geometry("CylinderGeometry",
                           JsHalf(JsOr(Prop(params, "top_d"), Prop(params, "top_diameter"))),
                           JsHalf(JsOr(Prop(params, "bottom_d"), Prop(params, "bottom_diameter"))),
                           Prop(params, "height")))
    [] shape = "torus" ->
         Returned(Geometry("TorusGeometry",
                           JsOr(Prop(params, "major_radius"), JsHalf(Prop(params, "diameter"))),
                           JsOr(Prop(params, "minor_radius"), JsHalf(Prop(params, "tube_diameter"))),
                           JsUndefined))
    [] OTHER -> Thrown("Unknown shape type")

Abs(n) == IF n < 0 THEN 0 - n ELSE n

\* A size as the THREE constructor reads it: an undefined argument takes the
\* constructor's default of 1.
SizeOf(a) == IF a.t = "undefined" THEN 2 ELSE a.v

\* Whether the point (x, y), stored doubled, lies inside the geometry.
Inside(g, x, y) ==
  IF g.a.t = "NaN" \/ g.b.t = "NaN" \/ g.c.t = "NaN" THEN FALSE
  ELSE LET a == SizeOf(g.a)
           b == SizeOf(g.b)
           c == SizeOf(g.c)
       IN  CASE g.type = "CylinderGeometry" ->
                  /\ 2 * Abs(y) <= c
                  /\ c > 0
                  /\ 2 * Abs(x) * c <= 2 * b * c + (a - b) * (2 * y + c)
             [] g.type = "BoxGeometry" ->
                  2 * Abs(x) <= a /\ 2 * Abs(y) <= b /\ c > 0
             [] g.type = "SphereGeometry" ->
                  x * x + y * y <= a * a
             [] g.type = "TorusGeometry" ->
                  /\ x * x + y * y <= (a + b) * (a + b)
                  /\ (a > b => (a - b) * (a - b) <= x * x + y * y)
             [] OTHER -> FALSE

\* The points of a geometry, in its own frame.
PointsOf(g) == { p \in Grid : Inside(g, 2 * p[1], 2 * p[2]) }

\* new Brush(geometry): a geometry and the position of the brush.
Brush(points, position) == [geometry |-> points, position |-> position]

\* brush.position after `if (step.position) brush.position.set(...)`.
positionOf(step) == IF step.position = Nil THEN << 0, 0, 0 >> ELSE step.position

\* The brush's matrixWorld applied to its geometry.
WorldPoints(brush) ==
  { << p[1] + brush.position[1], p[2] + brush.position[2] >> : p \in brush.geometry }

\* Evaluator.evaluate(a, b, operation): the result is a new brush at the
\* origin whose geometry is the combined solid.
evaluate_swapped(a, b, operation) ==
  Brush(CASE operation = "ADDITION"     -> WorldPoints(a) \cup WorldPoints(b)
          [] operation = "SUBTRACTION"  -> WorldPoints(b) \ WorldPoints(a)
          [] operation = "INTERSECTION" -> WorldPoints(a) \cap WorldPoints(b),
        << 0, 0, 0 >>)
evaluate(a, b, operation) ==
  Brush(CASE operation = "ADDITION"     -> WorldPoints(a) \cup WorldPoints(b)
          [] operation = "SUBTRACTION"  -> WorldPoints(a) \ WorldPoints(b)
          [] operation = "INTERSECTION" -> WorldPoints(a) \cap WorldPoints(b),
        << 0, 0, 0 >>)

\* AIAssistant.validateRecipe: the first operation becomes "add"; every step
\* keeps its fields, a missing position becomes [0, 0, 0].
validateRecipe(steps) ==
  [i \in 1..Len(steps) |->
     [steps[i] EXCEPT !.operation = IF i = 1 THEN "add" ELSE @,
                      !.position = IF @ = Nil THEN << 0, 0, 0 >> ELSE @]]

\* The guard at the head of executeRecipe:
\* `if (!recipe.steps || recipe.steps.length === 0) throw ...`.
entryCheck_missingOnly(hasSteps, steps) ==
  IF ~ hasSteps THEN Thrown("Recipe has no steps") ELSE Returned(steps)
entryCheck(hasSteps, steps) ==
  IF ~ hasSteps \/ Len(steps) = 0 THEN Thrown("Recipe has no steps") ELSE Returned(steps)

\* The body of the for loop of executeRecipe for one step: the new
\* resultBrush, or the Error thrown.
loopBody_noFirstStepCase(resultBrush, step) ==
  LET made == createPrimitive(step.shape, step.params)
  IN  IF ~ made.ok THEN Thrown(made.error)
      ELSE LET brush == Brush(PointsOf(made.value[1]), positionOf(step))
               prior == IF resultBrush = Nil THEN Brush({}, << 0, 0, 0 >>) ELSE resultBrush[1]
           IN  CASE step.operation = "add" ->
                      Returned(evaluate(prior, brush, "ADDITION"))
                 [] step.operation = "subtract" ->
                      Returned(evaluate(prior, brush, "SUBTRACTION"))
                 [] step.operation = "intersect" ->
                      Returned(evaluate(prior, brush, "INTERSECTION"))
                 [] OTHER -> Thrown("Unknown operation")
loopBody_skipUnknown(resultBrush, step) ==
  LET made == createPrimitive(step.shape, step.params)
  IN  IF ~ made.ok THEN Thrown(made.error)
      ELSE LET brush == Brush(PointsOf(made.value[1]), positionOf(step))
           IN  IF resultBrush = Nil THEN Returned(brush)
               ELSE CASE step.operation = "add" ->
                           Returned(evaluate(resultBrush[1], brush, "ADDITION"))
                      [] step.operation = "subtract" ->
                           Returned(evaluate(resultBrush[1], brush, "SUBTRACTION"))
                      [] step.operation = "intersect" ->
                           Returned(evaluate(resultBrush[1], brush, "INTERSECTION"))
                      [] OTHER -> Returned(resultBrush[1])
loopBody(resultBrush, step) ==
  LET made == createPrimitive(step.shape, step.params)
  IN  IF ~ made.ok THEN Thrown(made.error)
      ELSE LET brush == Brush(PointsOf(made.value[1]), positionOf(step))
           IN  IF resultBrush = Nil THEN Returned(brush)
               ELSE CASE step.operation = "add" ->
                           Returned(evaluate(resultBrush[1], brush, "ADDITION"))
                      [] step.operation = "subtract" ->
                           Returned(evaluate(resultBrush[1], brush, "SUBTRACTION"))
                      [] step.operation = "intersect" ->
                           Returned(evaluate(resultBrush[1], brush, "INTERSECTION"))
                      [] OTHER -> Thrown("Unknown operation")

(***************************************************************************)
(* State                                                                   *)
(***************************************************************************)
VARIABLES
  parameters,          \* iOS: suggestion.parameters as received so far
  currentPartNode,     \* iOS: MeasurementUI.currentPartNode (Optional)
  currentAISuggestion, \* iOS: MeasurementUI.currentAISuggestion (Optional bag)
  showingPart,         \* iOS: MeasurementUI.showingPart
  lastLog,             \* iOS: the branch line generateFromAI printed last
  stlFile,             \* iOS: extents of the last STL written (Optional)
  scadFile,            \* iOS: the last OpenSCAD script written
  recipe,              \* web: recipe.steps handed to executeRecipe
  recipeHasSteps,      \* web: whether the recipe object has a steps property
  recipeState,         \* web: where executeRecipe is: idle, running, done, failed
  stepIndex,           \* web: the number of steps the for loop has finished
  resultBrush,         \* web: executeRecipe's resultBrush (Optional)
  recipeMesh,          \* web: the geometry of the mesh returned (Optional)
  recipeError,         \* web: the message of the Error thrown
  arObjects,           \* web: which of ARManager's scene, camera, renderer exist, and whether it listens
  arInitialized,       \* web: what ARManager.initialize resolved with (Optional)
  demoMode,            \* web: ARManager.demoMode
  measurementCenter,   \* web: ARManager.measurementCenter (null or a point)
  scenePart,           \* web: the generated mesh, as added to the scene when there is one (Optional)
  currentPart,         \* web: RepairPartGenerator.currentPart: which call made the mesh (Optional)
  webStatus,           \* web: the last status line the page showed
  webStl,              \* web: the solid written to the last STL download (Optional)
  points,              \* web: ARManager.points
  measurements,        \* web: ARManager.measurements, id -> tenths of a millimetre
  markerMode,          \* web: ARManager.markerMode
  markerDetected,      \* web: ARManager.markerDetected
  pointsPlaced,              \* web: the calls of addPoint since the points were last cleared
  primitiveCall,       \* web: the arguments of the last createPrimitive call (Optional)
  primitiveResult,     \* web: what that call returned or threw (Optional)
  stlCall,             \* the exporter called last and the mesh or node given to it
  stlResult,           \* the document that call returned, its Error, or nil
  suggestCall,         \* web: the arguments and the reply of the last suggestPart call (Optional)
  suggestResult,       \* web: what that call resolved or rejected with (Optional)
  aiAssistant,         \* web: whether aiAssistant.isConfigured() (Optional, Nil before init)
  selectedPartType,    \* web: RepairPartGenerator.selectedPartType (Optional)
  currentSpec,         \* web: RepairPartGenerator.currentSpec (Optional)
  currentRecipe,       \* web: RepairPartGenerator.currentRecipe (Optional)
  exportBtn,           \* web: whether the export button is displayed
  pendingPart,         \* web: the generatePart call waiting for suggestPart (Optional)
  pendingShape,        \* web: the generateCustomShape call waiting for generateShapeRecipe (Optional)
  lastDownload,        \* web: the last file exportSTL downloaded (Optional)
  stateMeasurements,   \* iOS: MeasurementState.measurements, the ids in order
  measurementLines,    \* iOS: Coordinator.measurementLines, each an id and its nodes
  pendingPoint,        \* iOS: Coordinator.pendingPoint (Optional node)
  rootNodes,           \* iOS: the nodes under arView.scene.rootNode
  tapCount             \* iOS: the taps that hit a surface so far

iosVars == << parameters, currentPartNode, currentAISuggestion, showingPart,
              lastLog, stlFile, scadFile >>

recipeVars == << recipe, recipeHasSteps, recipeState, stepIndex, resultBrush, recipeMesh, recipeError >>

webVars == << arObjects, arInitialized, demoMode, measurementCenter, scenePart, currentPart, webStatus, webStl,
             points, measurements, markerMode, markerDetected, pointsPlaced >>

vars == << parameters, currentPartNode, currentAISuggestion, showingPart,
           lastLog, stlFile, scadFile,
           recipe, recipeHasSteps, recipeState, stepIndex, resultBrush, recipeMesh,
           recipeError,
           arObjects, arInitialized, demoMode, measurementCenter, scenePart, currentPart, webStatus, webStl,
           points, measurements, markerMode, markerDetected, pointsPlaced,
           primitiveCall, primitiveResult, stlCall, stlResult,
           suggestCall, suggestResult,
           aiAssistant, selectedPartType, currentSpec, currentRecipe, exportBtn, pendingPart, pendingShape, lastDownload,
           stateMeasurements, measurementLines, pendingPoint, rootNodes, tapCount >>

primitiveVars == << primitiveCall, primitiveResult >>

stlVars == << stlCall, stlResult >>

suggestVars == << suggestCall, suggestResult >>

sessionVars == << aiAssistant, selectedPartType, currentSpec, currentRecipe, exportBtn,
                 pendingPart, pendingShape, lastDownload >>

measureVars == << stateMeasurements, measurementLines, pendingPoint, rootNodes, tapCount >>

\* What the handlers of one part of the program leave alone.
notIosVars    == << recipeVars, webVars, primitiveVars, stlVars, suggestVars, sessionVars, measureVars >>
notRecipeVars == << iosVars, webVars, primitiveVars, stlVars, suggestVars, sessionVars, measureVars >>
notWebVars    == << iosVars, recipeVars, primitiveVars, stlVars, suggestVars, sessionVars, measureVars >>
notPrimitiveVars == << iosVars, recipeVars, webVars, stlVars, suggestVars, sessionVars, measureVars >>
notStlVars    == << iosVars, recipeVars, webVars, primitiveVars, suggestVars, sessionVars, measureVars >>
notMeasureVars == << iosVars, recipeVars, webVars, primitiveVars, stlVars, suggestVars, sessionVars >>
notSessionVars == << iosVars, recipeVars, webVars, primitiveVars, stlVars, suggestVars, measureVars >>
notWebSessionVars == << iosVars, recipeVars, primitiveVars, stlVars, suggestVars, measureVars >>
notSuggestVars == << iosVars, recipeVars, webVars, primitiveVars, stlVars, sessionVars, measureVars >>

IosInit ==
  /\ parameters = EmptyBag
  /\ currentPartNode = Nil
  /\ currentAISuggestion = Nil
  /\ showingPart = FALSE
  /\ lastLog = ""
  /\ stlFile = Nil
  /\ scadFile = NoScad

RecipeInit ==
  /\ recipe = << >>
  /\ recipeHasSteps = TRUE
  /\ recipeState = "idle"
  /\ stepIndex = 0
  /\ resultBrush = Nil
  /\ recipeMesh = Nil
  /\ recipeError = ""

PrimitiveInit ==
  /\ primitiveCall = Nil
  /\ primitiveResult = Nil

StlInit ==
  /\ stlCall = Nil
  /\ stlResult = Nil

SuggestInit ==
  /\ suggestCall = Nil
  /\ suggestResult = Nil

SessionInit ==
  /\ aiAssistant = Nil
  /\ selectedPartType = Nil
  /\ currentSpec = Nil
  /\ currentRecipe = Nil
  /\ exportBtn = FALSE
  /\ pendingPart = Nil
  /\ pendingShape = Nil
  /\ lastDownload = Nil

MeasureInit ==
  /\ stateMeasurements = << >>
  /\ measurementLines = << >>
  /\ pendingPoint = Nil
  /\ rootNodes = { }
  /\ tapCount = 0

WebInit ==
  /\ arObjects = ArObjects(FALSE, FALSE, FALSE, FALSE)
  /\ arInitialized = Nil
  /\ demoMode = FALSE
  /\ measurementCenter = Nil
  /\ scenePart = Nil
  /\ currentPart = Nil
  /\ webStatus = ""
  /\ webStl = Nil
  /\ points = << >>
  /\ measurements = << >>
  /\ markerMode = FALSE
  /\ markerDetected = FALSE
  /\ pointsPlaced = 0

(***************************************************************************)
(* MeasurementUI (iOS)                                                     *)
(***************************************************************************)

\* The suggestion service's reply grows by one parameter.
ReceiveParameter ==
  /\ currentPartNode = Nil
  /\ Cardinality(DOMAIN parameters) < MaxParams
  /\ \E i \in (MaxKeyIndex(parameters) + 1)..Len(KeyOrder) :
       \E v \in ParamValues(KeyOrder[i]) :
         parameters' = WithParam(parameters, KeyOrder[i], v)
  /\ UNCHANGED << currentPartNode, currentAISuggestion, showingPart, lastLog,
                  stlFile, scadFile >>
  /\ UNCHANGED notIosVars

\* generateCustomPartWithAI, the .success case of the completion handler.
GenerateCustomPartWithAI ==
  /\ currentPartNode = Nil
  /\ LET made == generateFromAI(parameters)
     IN  /\ currentPartNode' = Some(made.node)
         /\ lastLog' = made.log
  /\ currentAISuggestion' = Some(parameters)
  /\ showingPart' = TRUE
  /\ UNCHANGED << parameters, stlFile, scadFile >>
  /\ UNCHANGED notIosVars

\* Distances (fixed point, millimetres) the preset parts are generated from.
PresetDistances == { MM(1000), MM(250) }

PresetTypes == { "shim", "washer", "bracket", "knob" }

\* generatePresetPart(type:), with currentDistance * 1000 = distanceMM.
GeneratePresetPart ==
  /\ currentPartNode = Nil
  /\ parameters = EmptyBag
  /\ \E type \in PresetTypes, distanceMM \in PresetDistances :
       currentPartNode' =
         Some(CASE type = "shim"    -> generateShim(distanceMM, (distanceMM * 8) \div 10, MM(20))
                [] type = "washer"  -> generateWasher(distanceMM, distanceMM \div 2, MM(30))
                [] type = "bracket" -> generateShim(distanceMM, distanceMM, MM(30))
                [] OTHER            -> generateShim(MM(300), MM(300), MM(20)))
  /\ currentAISuggestion' = Nil
  /\ showingPart' = TRUE
  /\ UNCHANGED << parameters, lastLog, stlFile, scadFile >>
  /\ UNCHANGED notIosVars

\* exportSTL: nothing without a part; a failed export writes no file.
ExportSTL ==
  /\ currentPartNode # Nil
  /\ stlFile = Nil
  /\ stlFile' = exportToBinarySTL(currentPartNode[1])
  /\ UNCHANGED << parameters, currentPartNode, currentAISuggestion, showingPart,
                  lastLog, scadFile >>
  /\ UNCHANGED notIosVars

\* exportOpenSCAD: only for a part that came from a suggestion.
ExportOpenSCAD ==
  /\ currentAISuggestion # Nil
  /\ scadFile = NoScad
  /\ scadFile' = generateOpenSCADCode(currentAISuggestion[1])
  /\ UNCHANGED << parameters, currentPartNode, currentAISuggestion, showingPart,
                  lastLog, stlFile >>
  /\ UNCHANGED notIosVars

\* clearMeasurements; the next suggestion starts from an empty reply.
ClearMeasurements ==
  /\ currentPartNode # Nil
  /\ currentPartNode' = Nil
  /\ currentAISuggestion' = Nil
  /\ showingPart' = FALSE
  /\ parameters' = EmptyBag
  /\ lastLog' = ""
  /\ stlFile' = Nil
  /\ scadFile' = NoScad
  /\ UNCHANGED notIosVars

Init == IosInit /\ RecipeInit /\ WebInit /\ PrimitiveInit /\ StlInit /\ SuggestInit /\ SessionInit /\ MeasureInit

Next ==
  \/ ReceiveParameter
  \/ GenerateCustomPartWithAI
  \/ GeneratePresetPart
  \/ ExportSTL
  \/ ExportOpenSCAD
  \/ ClearMeasurements

Spec == Init /\ [][Next]_vars

(***************************************************************************)
(* executeRecipe (web), one loop iteration per step                        *)
(***************************************************************************)

\* Largest number of steps of a recipe.
MaxSteps == 3

\* step.operation: the three operations and one that is none of them.
Operations == { "add", "subtract", "intersect", "xor" }

\* A size in millimetres as the web app's numbers are stored.
Twice(mm) == 2 * mm

\* The primitives a step may ask for: shape, params, position.
Primitives ==
  { [shape |-> "cylinder", params |-> [k \in { "diameter", "height" } |-> Twice(4)],
     position |-> Nil],
    [shape |-> "sphere", params |-> [k \in { "diameter" } |-> Twice(4)],
     position |-> << 0, 3, 0 >>],
    [shape |-> "pyramid", params |-> [k \in { "height" } |-> Twice(2)], position |-> Nil] }

\* The recipe handed to executeRecipe grows by one step.
AddStep ==
  /\ recipeState = "idle"
  /\ recipeHasSteps
  /\ Len(recipe) < MaxSteps
  /\ \E op \in Operations, prim \in Primitives :
       recipe' = Append(recipe, [operation |-> op, shape |-> prim.shape,
                                 params |-> prim.params, position |-> prim.position])
  /\ UNCHANGED << recipeState, stepIndex, resultBrush, recipeMesh, recipeError >>
  /\ UNCHANGED << recipeHasSteps, notRecipeVars >>

\* The recipe object arrives without a steps property.
OmitSteps ==
  /\ recipeState = "idle"
  /\ recipe = << >>
  /\ recipeHasSteps
  /\ recipeHasSteps' = FALSE
  /\ UNCHANGED << recipe, recipeState, stepIndex, resultBrush, recipeMesh, recipeError >>
  /\ UNCHANGED notRecipeVars

\* generateShapeRecipe hands the parsed recipe to validateRecipe.
ValidateRecipe ==
  /\ recipeState = "idle"
  /\ recipe # << >>
  /\ recipe' = validateRecipe(recipe)
  /\ UNCHANGED << recipeState, stepIndex, resultBrush, recipeMesh, recipeError >>
  /\ UNCHANGED << recipeHasSteps, notRecipeVars >>

\* executeRecipe is entered: no steps throws, else resultBrush = null.
ExecuteRecipe ==
  /\ recipeState = "idle"
  /\ LET entry == entryCheck(recipeHasSteps, recipe)
     IN  IF ~ entry.ok
         THEN recipeState' = "failed" /\ recipeError' = entry.error
         ELSE recipeState' = "running" /\ recipeError' = recipeError
  /\ UNCHANGED << recipe, stepIndex, resultBrush, recipeMesh >>
  /\ UNCHANGED << recipeHasSteps, notRecipeVars >>

\* One iteration of `for (const step of recipe.steps)`.
RecipeLoopStep ==
  /\ recipeState = "running"
  /\ stepIndex < Len(recipe)
  /\ LET out == loopBody(resultBrush, recipe[stepIndex + 1])
     IN  IF out.ok
         THEN /\ resultBrush' = out.value
              /\ stepIndex' = stepIndex + 1
              /\ UNCHANGED << recipeState, recipeError >>
         ELSE /\ recipeState' = "failed"
              /\ recipeError' = out.error
              /\ UNCHANGED << resultBrush, stepIndex >>
  /\ UNCHANGED << recipe, recipeMesh >>
  /\ UNCHANGED << recipeHasSteps, notRecipeVars >>

\* After the loop: new THREE.Mesh(resultBrush.geometry, material).
RecipeReturn ==
  /\ recipeState = "running"
  /\ stepIndex = Len(recipe)
  /\ recipeMesh' = Some(resultBrush[1].geometry)
  /\ recipeState' = "done"
  /\ UNCHANGED << recipe, stepIndex, resultBrush, recipeError >>
  /\ UNCHANGED << recipeHasSteps, notRecipeVars >>

NextRecipe ==
  \/ AddStep
  \/ OmitSteps
  \/ ValidateRecipe
  \/ ExecuteRecipe
  \/ RecipeLoopStep
  \/ RecipeReturn

SpecRecipe == Init /\ [][NextRecipe]_vars

(***************************************************************************)
(* ShapeRecipeEngine.createPrimitive on its own (specification             *)
(* SpecPrimitive)                                                          *)
(***************************************************************************)

\* The shapes a caller may ask for: the five of the switch and another.
PrimitiveShapes == { "cylinder", "box", "sphere", "cone", "torus", "pyramid" }

\* The values a params key may carry (doubled), 0 included where `||` reads it.
PrimitiveValues(k) ==
  CASE k = "diameter" -> { Twice(4) }
    [] k = "height"   -> { Twice(4) }
    [] k = "length"   -> { Twice(3), 0 }
    [] k = "width"    -> { Twice(2), 0 }
    [] k = "depth"    -> { Twice(1), 0 }
    [] k = "top_d"    -> { Twice(2) }
    [] k = "bottom_d" -> { Twice(4) }

PrimitiveKeys == { "diameter", "height", "length", "width", "depth", "top_d", "bottom_d" }

\* Every params object over a subset of the keys.
PrimitiveParams ==
  UNION { { f \in [K -> UNION { PrimitiveValues(k) : k \in K }] :
              \A k \in K : f[k] \in PrimitiveValues(k) } :
            K \in SUBSET PrimitiveKeys }

\* A caller calls createPrimitive(shape, params); one call is followed.
CreatePrimitive ==
  /\ primitiveCall = Nil
  /\ \E shape \in PrimitiveShapes, params \in PrimitiveParams :
       /\ primitiveCall' = Some([shape |-> shape, params |-> params])
       /\ primitiveResult' = Some(createPrimitive(shape, params))
  /\ UNCHANGED notPrimitiveVars

NextPrimitive == CreatePrimitive

SpecPrimitive == Init /\ [][NextPrimitive]_vars

(***************************************************************************)
(* Binary STL documents (specification SpecStl)                            *)
(*                                                                         *)
(* A vertex is << x, y, z >> with integer coordinates.  A document is      *)
(* its header (the bytes of text and the zero bytes after them), the four  *)
(* bytes of the triangle count, the records written and the number of      *)
(* bytes of the whole buffer.                                              *)
(***************************************************************************)

\* Largest number of triangles of a mesh handed to the web exporter.
MaxTriangles == 2

\* The lengths of the header texts: 'STL Binary exported from AR Repair
\* Generator' and "Binary STL exported from ARRepairGenerator".
jsHeaderLength == 44
swiftHeaderLength == 42

VSub(u, v) == << u[1] - v[1], u[2] - v[2], u[3] - v[3] >>

\* crossVectors(a, b)
VCross(a, b) ==
  << a[2] * b[3] - a[3] * b[2], a[3] * b[1] - a[1] * b[3], a[1] * b[2] - a[2] * b[1] >>

RECURSIVE Gcd(_, _)
Gcd(a, b) == IF b = 0 THEN a ELSE Gcd(b, a % b)

\* A vector divided by its length, kept exact: the shortest integer vector
\* of the same direction.  The zero vector has no direction and stays zero
\* (three.js divides by `length() || 1`, Swift skips the division).
normalize(v) ==
  LET g == Gcd(Gcd(Abs(v[1]), Abs(v[2])), Abs(v[3]))
  IN  IF g = 0 THEN v ELSE << v[1] \div g, v[2] \div g, v[3] \div g >>

\* The bytes of setUint32(offset, n, true) and of Data(bytes: &UInt32, count: 4).
LittleEndian32(n) ==
  << n % 256, (n \div 256) % 256, (n \div (256 * 256)) % 256, (n \div (256 * 256 * 256)) % 256 >>

\* One 50-byte record: 12 bytes of normal, 36 of vertices, 2 of attribute count.
stlRecord_rewound(normal, v1, v2, v3) ==
  [normal |-> normal, v1 |-> v1, v2 |-> v3, v3 |-> v2, attribute |-> 0]
stlRecord(normal, v1, v2, v3) ==
  [normal |-> normal, v1 |-> v1, v2 |-> v2, v3 |-> v3, attribute |-> 0]

\* mesh.matrixWorld applied to a vertex: scale, quarter turns about y, position.
applyMatrix4(v, matrix) ==
  LET sv == << v[1] * matrix.scale, v[2] * matrix.scale, v[3] * matrix.scale >>
      rv == IF matrix.turns = 1 THEN << sv[3], sv[2], 0 - sv[1] >> ELSE sv
  IN  << rv[1] + matrix.position[1], rv[2] + matrix.position[2], rv[3] + matrix.position[3] >>

\* STLExporter.exportBinary's triangleCount: indices.length / 3, or
\* vertices.length / 9 of the flat array (three vertices a triangle).
triangleCount(geometry) ==
  IF geometry.index # Nil THEN Len(geometry.index[1]) \div 3
  ELSE Len(geometry.position[1]) \div 3

\* The i-th triangle (from 0) of exportBinary's loop, as its record.
jsTriangle(geometry, matrix, i) ==
  LET vertices == geometry.position[1]
      i1 == IF geometry.index # Nil THEN geometry.index[1][i * 3 + 1] ELSE i * 3
      i2 == IF geometry.index # Nil THEN geometry.index[1][i * 3 + 2] ELSE i * 3 + 1
      i3 == IF geometry.index # Nil THEN geometry.index[1][i * 3 + 3] ELSE i * 3 + 2
      v1 == applyMatrix4(vertices[i1 + 1], matrix)
      v2 == applyMatrix4(vertices[i2 + 1], matrix)
      v3 == applyMatrix4(vertices[i3 + 1], matrix)
      normal == normalize(VCross(VSub(v2, v1), VSub(v3, v1)))
  IN  stlRecord(normal, v1, v2, v3)

\* STLExporter.exportBinary (web): the buffer returned, or the Error thrown.
exportBinaryDocument(mesh) ==
  IF mesh.geometry.position = Nil
  THEN Thrown("Geometry must have position attribute")
  ELSE LET n == triangleCount(mesh.geometry)
           text == IF jsHeaderLength < 80 THEN jsHeaderLength ELSE 80
       IN  Returned([ headerText  |-> text,
                      headerZeros |-> 80 - text,
                      count       |-> LittleEndian32(n),
                      records     |-> [k \in 1..n |-> jsTriangle(mesh.geometry, mesh.matrix, k - 1)],
                      byteLength  |-> 84 + (n * 50) ])

\* SceneKit's data of a geometry.  An SCNBox has 24 vertices, four a face,
\* and six elements of two triangles each, in the order front, right, back,
\* left, top, bottom; a custom geometry carries its own sources and elements.
boxFaces(geom) ==
  LET x == geom.width \div 2
      y == geom.height \div 2
      z == geom.length \div 2
  IN  << << << 0 - x, 0 - y, z >>, << x, 0 - y, z >>, << x, y, z >>, << 0 - x, y, z >> >>,
         << << x, 0 - y, z >>, << x, 0 - y, 0 - z >>, << x, y, 0 - z >>, << x, y, z >> >>,
         << << x, 0 - y, 0 - z >>, << 0 - x, 0 - y, 0 - z >>, << 0 - x, y, 0 - z >>, << x, y, 0 - z >> >>,
         << << 0 - x, 0 - y, 0 - z >>, << 0 - x, 0 - y, z >>, << 0 - x, y, z >>, << 0 - x, y, 0 - z >> >>,
         << << 0 - x, y, z >>, << x, y, z >>, << x, y, 0 - z >>, << 0 - x, y, 0 - z >> >>,
         << << 0 - x, 0 - y, 0 - z >>, << x, 0 - y, 0 - z >>, << x, 0 - y, z >>, << 0 - x, 0 - y, z >> >> >>

\* geometry.sources(for: .vertex).first, as the vectors it holds.
vertexSource(geom) ==
  CASE geom.kind = "box" ->
         LET faces == boxFaces(geom)
         IN  [i \in 1..24 |-> faces[((i - 1) \div 4) + 1][((i - 1) % 4) + 1]]
    [] geom.kind = "custom" -> geom.vertices

\* geometry.elements: every element is the sequence of its index triples.
geometryElements(geom) ==
  CASE geom.kind = "box" ->
         [f \in 1..6 |-> << << 4 * (f - 1), 4 * (f - 1) + 1, 4 * (f - 1) + 2 >>,
                            << 4 * (f - 1), 4 * (f - 1) + 2, 4 * (f - 1) + 3 >> >>]
    [] geom.kind = "custom" -> geom.elements

\* STLExporter.extractVertices: every vertex moved by the world transform.
extractVertices(geometry, transform) ==
  LET source == vertexSource(geometry)
  IN  [i \in 1..Len(source) |->
         << source[i][1] + transform[1], source[i][2] + transform[2], source[i][3] + transform[3] >>]

\* STLExporter.extractTriangles: the index triples of geometry.elements.first.
extractTriangles(geometry, indexOffset) ==
  LET elements == geometryElements(geometry)
  IN  IF elements = << >> THEN << >>
      ELSE [i \in 1..Len(elements[1]) |->
              << elements[1][i][1] + indexOffset, elements[1][i][2] + indexOffset,
                 elements[1][i][3] + indexOffset >>]

\* STLExporter.collectGeometries over the geometries of the node and its
\* descendants, from the n-th on: allVertices and allTriangles.
RECURSIVE collectInto(_, _, _)
collectInto(placed, n, acc) ==
  IF n > Len(placed) THEN acc
  ELSE LET startIndex == Len(acc.vertices)
           nodeVertices == extractVertices(placed[n].geometry, placed[n].position)
           nodeTriangles == extractTriangles(placed[n].geometry, startIndex)
       IN  collectInto(placed, n + 1, [vertices  |-> acc.vertices \o nodeVertices,
                                       triangles |-> acc.triangles \o nodeTriangles])

\* STLExporter.calculateNormal
calculateNormal(v1, v2, v3) ==
  LET u == VSub(v2, v1)
      v == VSub(v3, v1)
  IN  normalize(VCross(u, v))

\* STLExporter.exportToBinarySTL, up to the Data it writes: nil when no
\* triangle was collected.
exportToBinarySTLData(node) ==
  LET all == collectInto(collectGeometries(node), 1, [vertices |-> << >>, triangles |-> << >>])
      allVertices == all.vertices
      allTriangles == all.triangles
  IN  IF allTriangles = << >> THEN Nil
      ELSE Some([ headerText  |-> swiftHeaderLength,
                  headerZeros |-> 80 - swiftHeaderLength,
                  count       |-> LittleEndian32(Len(allTriangles)),
                  records     |->
                    [k \in 1..Len(allTriangles) |->
                       LET v1 == allVertices[allTriangles[k][1] + 1]
                           v2 == allVertices[allTriangles[k][2] + 1]
                           v3 == allVertices[allTriangles[k][3] + 1]
                       IN  stlRecord(calculateNormal(v1, v2, v3), v1, v2, v3)],
                  byteLength  |-> swiftHeaderLength + (80 - swiftHeaderLength) + 4
                                    + (Len(allTriangles) * 50) ])

\* The triangles a mesh may be made of: two of a quad, one wound the other
\* way round, and one of zero area.
StlTriangles ==
  { << << 0, 0, 0 >>, << 1, 0, 0 >>, << 0, 1, 0 >> >>,
    << << 1, 0, 0 >>, << 1, 1, 0 >>, << 0, 1, 0 >> >>,
    << << 0, 0, 1 >>, << 0, 1, 1 >>, << 1, 0, 1 >> >>,
    << << 0, 0, 0 >>, << 1, 1, 1 >>, << 2, 2, 2 >> >> }

\* Sequences of at most n elements of S.
SeqUpTo(S, n) == UNION { [1..k -> S] : k \in 0..n }

RECURSIVE Flatten(_)
Flatten(ss) == IF ss = << >> THEN << >> ELSE Head(ss) \o Flatten(Tail(ss))

\* The vertices and the index triples of an indexed quad.
QuadVertices == << << 0, 0, 0 >>, << 2, 0, 0 >>, << 2, 2, 0 >>, << 0, 2, 0 >> >>
QuadTriples == { << 0, 1, 2 >>, << 0, 2, 3 >>, << 0, 0, 1 >> }

\* The geometries handed to the web exporter: without an index, with one,
\* and one without a position attribute.
JsGeometries ==
  { [position |-> Some(Flatten(ts)), index |-> Nil] : ts \in SeqUpTo(StlTriangles, MaxTriangles) }
  \cup { [position |-> Some(QuadVertices), index |-> Some(Flatten(is))] :
           is \in SeqUpTo(QuadTriples, MaxTriangles) }
  \cup { [position |-> Nil, index |-> Nil] }

\* mesh.matrixWorld after updateMatrixWorld.
JsMatrices ==
  { [scale |-> sc, turns |-> t, position |-> pos] :
      sc \in { 1, 2 }, t \in { 0, 1 }, pos \in { << 0, 0, 0 >>, << 1, 0, 2 >> } }

\* A custom SceneKit geometry of the triangles ts, all in one element.
customGeometry(ts) ==
  [kind |-> "custom", vertices |-> Flatten(ts),
   elements |-> IF ts = << >> THEN << >>
                ELSE << [i \in 1..Len(ts) |-> << 3 * (i - 1), 3 * (i - 1) + 1, 3 * (i - 1) + 2 >>] >>]

\* The nodes handed to the iOS exporter: generated parts made of boxes, a
\* node without geometry, and nodes of custom geometry.
SwiftNodes ==
  { generateShim(MM(1000), MM(500), MM(20)), generateShim(MM(300), MM(300), MM(20)),
    bracketNode(MM(400), MM(600), defaultBracketThickness), EmptyNode }
  \cup { SCNNode(customGeometry(ts)) : ts \in SeqUpTo(StlTriangles, MaxTriangles) }

\* The web app exports a mesh; one call is followed.
ExportBinary ==
  /\ stlCall = Nil
  /\ \E geometry \in JsGeometries, matrix \in JsMatrices :
       LET mesh == [geometry |-> geometry, matrix |-> matrix]
       IN  /\ stlCall' = Some([exporter |-> "exportBinary", mesh |-> mesh])
           /\ stlResult' = Some(exportBinaryDocument(mesh))
  /\ UNCHANGED notStlVars

\* The iOS app exports a node; one call is followed.
ExportToBinarySTL ==
  /\ stlCall = Nil
  /\ \E node \in SwiftNodes :
       /\ stlCall' = Some([exporter |-> "exportToBinarySTL", mesh |-> node])
       /\ stlResult' = Some(exportToBinarySTLData(node))
  /\ UNCHANGED notStlVars

NextStl ==
  \/ ExportBinary
  \/ ExportToBinarySTL

SpecStl == Init /\ [][NextStl]_vars

(***************************************************************************)
(* Web app: generate, preview, export (specification SpecWeb)              *)
(*                                                                         *)
(* Web lengths are in tenths of a millimetre, scale factors in hundredths, *)
(* angles in steps of 0.005 rad.                                           *)
(***************************************************************************)

\* CONSTRAINTS.min_thickness (0.8 mm), CONSTRAINTS.min_hole_diameter (2.0 mm)
\* and CONSTRAINTS.max_dimension (200 mm).
min_thickness == 8
min_hole_diameter == 20
max_dimension == 2000

\* addPartToScene's preview scales (0.01 and 0.05) and exportSTL's scale (1).
arScale == 1
demoScale == 5
exportScale == 100

\* animate's rotationSpeed: 0.005 with the camera, 0.01 in demo mode.
arRotationSpeed == 1
demoRotationSpeed == 2

\* The number of frames animate is followed for.
MaxFrames == 2

\* The number of addPoint calls followed between two clearings.
MaxPlaced == 4

\* Tenths of a millimetre in a hundredth of a scene unit, times 100:
\* `distance * 1000 * 10` with the marker, `distance * 10 * 10` without.
markerTenthsPerUnit == 100
demoTenthsPerUnit == 1

\* new THREE.Mesh(new THREE.BoxGeometry(length, width, thickness), material)
webGenerateShim(params) ==
  [ geometry |-> [ type   |-> "BoxGeometry",
                   size   |-> << params.numbers.length, params.numbers.width,
                                params.numbers.thickness >>,
                   index  |-> TRUE,
                   normal |-> TRUE ],
    scale    |-> exportScale,
    rotation |-> 0,
    position |-> Origin ]

\* What the model keeps of a mesh held in this.currentPart: the method that
\* made it, and the part type or the recipe description it was made from.
PartFrom(method, partType, description) ==
  [ from |-> method, part_type |-> partType, description |-> description ]

\* part-generators.js generatePart: the switch on the part type.
webGeneratePart(partType, params) ==
  CASE partType = "shim" -> Returned(webGenerateShim(params))
    [] OTHER             -> Thrown("Unknown part type")

\* A parameters object: its keys that hold a number (tenths of a
\* millimetre) and its holes, the diameters of an array when it has one.
Parameters(numbers, holes) == [ numbers |-> numbers, holes |-> holes ]

\* part-generators.js validateParameters: what it reports.  A thickness that
\* is absent compares false (`undefined < min`).
validateParameters(params) ==
  LET tooThin == IF "thickness" \in DOMAIN params.numbers
                    /\ params.numbers["thickness"] < min_thickness
                 THEN { "Thickness" } ELSE { }
      tooNarrow == IF params.holes = Nil THEN { }
                   ELSE { "Hole " \o ToString(idx) :
                            idx \in { i \in 1..Len(params.holes[1]) :
                                        params.holes[1][i] < min_hole_diameter } }
      tooBig  == { k \in DOMAIN params.numbers :
                     params.numbers[k] > max_dimension }
      errors  == tooThin \cup tooNarrow \cup tooBig
  IN  [ valid |-> errors = { }, errors |-> errors ]

\* ARManager.addPartToScene: the object as it is put into the scene.
addPartToScene(partMesh, center, demo) ==
  IF center # Nil /\ ~demo
  THEN [ partMesh EXCEPT !.position = center[1], !.scale = arScale ]
  ELSE [ partMesh EXCEPT !.position = Origin, !.scale = demoScale ]

\* STLExporter.exportBinary: every vertex goes through mesh.matrixWorld, so
\* the solid written has the box's sizes times the scale, measured along the
\* part's own axes, turned by rotation.y and moved to position.
exportBinary(mesh) ==
  [ extent   |-> << (mesh.geometry.size[1] * mesh.scale) \div exportScale,
                    (mesh.geometry.size[2] * mesh.scale) \div exportScale,
                    (mesh.geometry.size[3] * mesh.scale) \div exportScale >>,
    rotation |-> mesh.rotation,
    position |-> mesh.position ]

\* prepareMeshForExport(mesh): the mesh gets a copy of its geometry without
\* index when it has one; the geometry it came with, which a clone shares
\* with its source, gets vertex normals computed when it has none.
prepareMeshForExport(mesh) ==
  LET geometry == mesh.geometry
  IN  [ mesh     |-> IF geometry.index
                     THEN [ mesh EXCEPT !.geometry = [ geometry EXCEPT !.index = FALSE ] ]
                     ELSE mesh,
        geometry |-> IF ~ geometry.normal
                     THEN [ geometry EXCEPT !.normal = TRUE ]
                     ELSE geometry ]

\* this.currentPart after the statements of exportSTL: what was set on
\* meshToExport stays there, the geometry object is the shared one.
partAfterExport_noClone(part, meshToExport, geometry) ==
  [ meshToExport EXCEPT !.geometry = geometry ]
partAfterExport(part, meshToExport, geometry) ==
  [ part EXCEPT !.geometry = geometry ]

\* The replies of the suggestion step (AI or fallbackSuggestion) to generatePart.
WebSpecs ==
  { [ part_type |-> t,
      parameters |-> Parameters([ length |-> l, width |-> 200, thickness |-> th ], Nil) ] :
      t \in { "shim", "gasket" }, l \in { 1000, 2500 }, th \in { 20, 5 } }

\* The largest r in lo..hi with r * r <= n.
RECURSIVE ISqrtBetween(_, _, _)
ISqrtBetween(n, lo, hi) ==
  IF lo = hi THEN lo
  ELSE LET mid == (lo + hi + 1) \div 2
       IN  IF mid * mid <= n THEN ISqrtBetween(n, mid, hi)
           ELSE ISqrtBetween(n, lo, mid - 1)

\* Math.round(p1.distanceTo(p2) * perUnit), for points in hundredths of a
\* scene unit: the nearest integer, a half going up.
roundedDistance(p1, p2, perUnit) ==
  LET d == VSub(p1, p2)
      squared == d[1] * d[1] + d[2] * d[2] + d[3] * d[3]
      doubled == ISqrtBetween(4 * perUnit * perUnit * squared, 0, 2 * perUnit * 200)
  IN  (doubled + 1) \div 2

\* `dist_${Object.keys(this.measurements).length + 1}`
measurementId(m) == "dist_" \o ToString(Cardinality(DOMAIN m) + 1)

\* Object.keys(this.measurements): the ids in the order they were added.
measurementKeys(m) == [ i \in 1..Cardinality(DOMAIN m) |-> "dist_" \o ToString(i) ]

\* ARManager.getMeasurements: a copy of the measurements.
getMeasurements(m) == [ k \in DOMAIN m |-> m[k] ]

\* ARManager.getMeasurementsForAI: names by count, nothing below two.
getMeasurementsForAI(m) ==
  LET keys == measurementKeys(m)
      named == (IF Len(keys) >= 2 THEN { "length", "width" } ELSE { })
               \cup (IF Len(keys) >= 3 THEN { "thickness" } ELSE { })
               \cup (IF Len(keys) >= 4 THEN { "hole_diameter" } ELSE { })
  IN  [ k \in named |->
          CASE k = "length"    -> m[keys[1]]
            [] k = "width"     -> m[keys[2]]
            [] k = "thickness" -> m[keys[3]]
            [] OTHER           -> m[keys[4]] ]

\* ARManager.calculateDistance on the manager's fields: a scene unit is a
\* metre with the marker and 10 mm without; the value is kept in tenths of a
\* millimetre (one decimal), the centre is the midpoint.
calculateDistance(ar) ==
  LET p1 == ar.points[1]
      p2 == ar.points[2]
      distanceMM == IF ar.markerMode THEN roundedDistance(p1, p2, markerTenthsPerUnit)
                    ELSE roundedDistance(p1, p2, demoTenthsPerUnit)
      id == measurementId(ar.measurements)
  IN  [ ar EXCEPT
          !.measurements = [ k \in DOMAIN ar.measurements \cup { id } |->
                               IF k = id THEN distanceMM ELSE ar.measurements[k] ],
          !.measurementCenter = Some(<< (p1[1] + p2[1]) \div 2,
                                        (p1[2] + p2[2]) \div 2,
                                        (p1[3] + p2[3]) \div 2 >>) ]

\* ARManager.addPoint: nothing beyond two points; the second one measures.
addPoint(ar, position) ==
  IF Len(ar.points) >= 2 THEN ar
  ELSE LET pushed == [ ar EXCEPT !.points = Append(@, position) ]
       IN  IF Len(pushed.points) = 2 THEN calculateDistance(pushed) ELSE pushed

\* onScreenTap's first statement: with the marker out of sight the tap ends here.
tapRejected_never(mode, detected) == FALSE
tapRejected(mode, detected) == mode /\ ~ detected

\* A tap: where its ray meets the reference plane (in hundredths of a scene
\* unit, none when it misses) and where markerRoot.matrixWorld puts the
\* marker's origin at that moment; the marker is followed at one place in
\* front of the camera.
PlanePoints == { << 0, 0, 0 >>, << 20, 0, 40 >> }
MarkerOrigins == { << 0, 0, -20 >> }
TapEvents ==
  { [ intersection |-> i, markerOrigin |-> o ] :
      i \in { Nil } \cup { Some(q) : q \in PlanePoints }, o \in MarkerOrigins }

\* The values preferredMode is given, 'ar' standing for any other string, and
\* what the camera request comes to: no mediaDevices, permission denied,
\* video.play rejected, or initializeWithCamera done with marker tracking or
\* with the virtual plane.
PreferredModes == { "auto", "camera", "demo", "ar" }
CameraOutcomes == { "no mediaDevices", "denied", "play rejected", "marker", "virtual plane" }

\* ARManager.initialize: what it resolves with and what it leaves in the
\* ARManager.  webgl is whether `new THREE.WebGLRenderer` succeeds.
initialize(preferredMode, cameraOutcome, webgl) ==
  LET tryCamera  == preferredMode \in { "camera", "auto" }
      cameraDone == tryCamera /\ cameraOutcome \in { "marker", "virtual plane" } /\ webgl
      demo       == preferredMode = "demo" \/ (tryCamera /\ ~ cameraDone)
  IN  IF cameraDone
      THEN [ result |-> TRUE, demoMode |-> FALSE, markerMode |-> cameraOutcome = "marker",
             objects |-> ArObjects(TRUE, TRUE, TRUE, TRUE) ]
      ELSE IF ~ demo
      THEN [ result |-> TRUE, demoMode |-> FALSE, markerMode |-> FALSE,
             objects |-> ArObjects(FALSE, FALSE, FALSE, FALSE) ]
      ELSE IF webgl
      THEN [ result |-> TRUE, demoMode |-> TRUE, markerMode |-> FALSE,
             objects |-> ArObjects(TRUE, TRUE, TRUE, TRUE) ]
      ELSE [ result |-> FALSE, demoMode |-> TRUE, markerMode |-> FALSE,
             objects |-> ArObjects(TRUE, TRUE, FALSE, FALSE) ]

\* `await this.arManager.initialize(this.elements.arScene, this.preferredMode)`
\* for a preferredMode of modes, and the status line that init shows after it.
InitializeAR(modes) ==
  /\ arInitialized = Nil
  /\ \E preferredMode \in modes, cameraOutcome \in CameraOutcomes, webgl \in BOOLEAN :
       LET done == initialize(preferredMode, cameraOutcome, webgl)
       IN  /\ arInitialized' = Some(done.result)
           /\ arObjects' = done.objects
           /\ demoMode' = done.demoMode
           /\ markerMode' = done.markerMode
           /\ webStatus' = IF done.result THEN "Ready" ELSE "Failed to initialize"
  /\ UNCHANGED << measurementCenter, scenePart, currentPart, webStl,
                  points, measurements, markerDetected, pointsPlaced >>

\* ARManager.initialize on its own.
ARManagerInitialize == InitializeAR(PreferredModes) /\ UNCHANGED notWebVars

\* ARManager.onScreenTap for one click or touch, addPoint and
\* calculateDistance included.
OnScreenTap(event) ==
  /\ arObjects.listening
  /\ IF tapRejected(markerMode, markerDetected) \/ event.intersection = Nil
     THEN UNCHANGED << points, measurements, measurementCenter, pointsPlaced >>
     ELSE LET hit == event.intersection[1]
              position == IF markerMode
                          THEN << hit[1] + event.markerOrigin[1],
                                  hit[2] + event.markerOrigin[2],
                                  hit[3] + event.markerOrigin[3] >>
                          ELSE hit
              ar == addPoint([ points |-> points, measurements |-> measurements,
                               measurementCenter |-> measurementCenter,
                               markerMode |-> markerMode ], position)
          IN  /\ pointsPlaced < MaxPlaced
              /\ points' = ar.points
              /\ measurements' = ar.measurements
              /\ measurementCenter' = ar.measurementCenter
              /\ pointsPlaced' = pointsPlaced + 1
  /\ UNCHANGED << arObjects, arInitialized, demoMode, scenePart, currentPart, webStatus, webStl,
                  markerMode, markerDetected >>
  /\ UNCHANGED notWebVars

ScreenTap == \E event \in TapEvents : OnScreenTap(event)

\* RepairPartGenerator.generatePart, from the suggestion's reply onwards.
WebGeneratePart ==
  /\ arInitialized = Some(TRUE)
  /\ \E spec \in WebSpecs :
       LET validation == validateParameters(spec.parameters)
           made == webGeneratePart(spec.part_type, spec.parameters)
       IN  IF validation.valid /\ made.ok
           THEN /\ currentPart' = Some(PartFrom("generatePart", spec.part_type, << >>))
                /\ IF arObjects.scene
                   THEN /\ scenePart' = Some(addPartToScene(made.value[1],
                                                            measurementCenter, demoMode))
                        /\ webStatus' = "Part generated"
                   ELSE \* `this.scene.getObjectByName` of null throws
                        /\ scenePart' = Some(made.value[1])
                        /\ webStatus' = "Failed"
           ELSE /\ webStatus' = "Failed"
                /\ UNCHANGED << scenePart, currentPart >>
  /\ UNCHANGED << arObjects, arInitialized, demoMode, measurementCenter, webStl,
                  points, measurements, markerMode, markerDetected, pointsPlaced >>
  /\ UNCHANGED notWebVars

\* ARManager.animate, one frame: with marker tracking markerDetected follows
\* markerRoot.visible; the generated part, when there is one, turns.
Animate ==
  /\ arObjects.listening
  /\ scenePart # Nil => scenePart[1].rotation < MaxFrames * demoRotationSpeed
  /\ IF markerMode THEN markerDetected' \in BOOLEAN ELSE UNCHANGED markerDetected
  /\ IF scenePart # Nil
     THEN scenePart' = Some([ scenePart[1] EXCEPT !.rotation =
                                @ + (IF demoMode THEN demoRotationSpeed ELSE arRotationSpeed) ])
     ELSE UNCHANGED scenePart
  /\ UNCHANGED << arObjects, arInitialized, demoMode, measurementCenter, currentPart, webStatus, webStl,
                  points, measurements, markerMode, pointsPlaced >>
  /\ UNCHANGED notWebVars

\* RepairPartGenerator.exportSTL: a clone at scale 1 goes to the exporter.
WebExportSTL ==
  /\ arInitialized = Some(TRUE)
  /\ currentPart # Nil
  /\ LET meshToExport == [ scenePart[1] EXCEPT !.scale = exportScale ]
         prepared == prepareMeshForExport(meshToExport)
     IN  /\ webStl' = Some(exportBinary(prepared.mesh))
         /\ scenePart' = Some(partAfterExport(scenePart[1], prepared.mesh, prepared.geometry))
  /\ webStatus' = "STL exported"
  /\ UNCHANGED << arObjects, arInitialized, demoMode, measurementCenter, currentPart,
                  points, measurements, markerMode, markerDetected, pointsPlaced >>
  /\ UNCHANGED notWebVars

\* RepairPartGenerator.clearAll: clearPoints empties the points and the
\* measurements, and the part reference goes.
ClearAll ==
  /\ arInitialized = Some(TRUE)
  /\ points' = << >>
  /\ measurements' = << >>
  /\ measurementCenter' = Nil
  /\ pointsPlaced' = 0
  /\ selectedPartType' = Nil
  /\ currentPart' = Nil
  /\ currentSpec' = Nil
  /\ exportBtn' = FALSE
  /\ webStatus' = "Ready to measure"
  /\ UNCHANGED << arObjects, arInitialized, demoMode, scenePart, webStl, markerMode, markerDetected >>
  /\ UNCHANGED << aiAssistant, currentRecipe, pendingPart, pendingShape, lastDownload >>
  /\ UNCHANGED notWebSessionVars

NextWeb ==
  \/ ARManagerInitialize
  \/ ScreenTap
  \/ WebGeneratePart
  \/ Animate
  \/ WebExportSTL
  \/ ClearAll

SpecWeb == Init /\ [][NextWeb]_vars

\* The web export keeps millimetres: whatever preview scale the part was shown
\* at, the solid written has the sizes the shim was requested with.
WebExportKeepsSizes ==
  webStl # Nil =>
    \E s \in WebSpecs :
      /\ s.part_type = "shim"
      /\ webStl[1].extent = << s.parameters.numbers.length, s.parameters.numbers.width,
                              s.parameters.numbers.thickness >>

\* A shim of length 100 mm shown at a preview scale, turned, and exported.
WebExportReached ==
  /\ webStl # Nil
  /\ webStl[1].extent[1] = 1000
  /\ webStl[1].rotation > 0
  /\ scenePart[1].scale \in { arScale, demoScale }



(***************************************************************************)
(* AIAssistant.suggestPart (specification SpecSuggest)                     *)
(*                                                                         *)
(* A description is the set of the keywords its lower-cased text includes; *)
(* the measurements are Object.values(measurements), in key order.         *)
(***************************************************************************)

\* Largest number of keywords a description includes.
MaxKeywords == 2

\* lowerDesc.includes(word)
Includes(lowerDesc, word) == word \in lowerDesc

\* measArray[i] || d, with i counted from 1.
MeasuredOr(measArray, i, d) ==
  IF i <= Len(measArray) /\ measArray[i] # 0 THEN measArray[i] ELSE d

\* AIAssistant.generateBasicParameters: the switch on the part type.
generateBasicParameters(partType, measArray) ==
  CASE partType = "shim" ->
         Parameters([ length    |-> MeasuredOr(measArray, 1, 300),
                      width     |-> MeasuredOr(measArray, 2, 300),
                      thickness |-> MeasuredOr(measArray, 3, min_thickness * 2),
                      chamfer   |-> 5 ], Nil)
    [] partType = "washer" ->
         Parameters([ outer_d   |-> MeasuredOr(measArray, 1, 120),
                      inner_d   |-> MeasuredOr(measArray, 2, 50),
                      thickness |-> MeasuredOr(measArray, 3, 20) ], Nil)
    [] partType = "l_bracket" ->
         Parameters([ leg_a     |-> MeasuredOr(measArray, 1, 400),
                      leg_b     |-> MeasuredOr(measArray, 2, 400),
                      thickness |-> MeasuredOr(measArray, 3, 30),
                      fillet    |-> 40 ], Some(<< >>))
    [] partType = "u_clamp" ->
         Parameters([ width     |-> MeasuredOr(measArray, 1, 200),
                      height    |-> MeasuredOr(measArray, 2, 300),
                      depth     |-> MeasuredOr(measArray, 3, 100),
                      thickness |-> 30 ], Some(<< >>))
    [] partType = "face_plate" ->
         Parameters([ length    |-> MeasuredOr(measArray, 1, 500),
                      width     |-> MeasuredOr(measArray, 2, 500),
                      thickness |-> MeasuredOr(measArray, 3, 30) ], Some(<< >>))
    [] partType = "clip" ->
         Parameters([ outer_d   |-> MeasuredOr(measArray, 1, 150),
                      inner_d   |-> MeasuredOr(measArray, 2, 120),
                      thickness |-> 20,
                      gap_angle |-> 600 ], Nil)
    [] OTHER -> Parameters(EmptyBag, Nil)

\* The keyword matching of fallbackSuggestion, first match first.
fallbackPartType(lowerDesc) ==
  IF Includes(lowerDesc, "washer") \/ Includes(lowerDesc, "disc") THEN "washer"
  ELSE IF Includes(lowerDesc, "bracket") \/ Includes(lowerDesc, "l-shape") THEN "l_bracket"
  ELSE IF Includes(lowerDesc, "clamp") \/ Includes(lowerDesc, "u-shape") THEN "u_clamp"
  ELSE IF Includes(lowerDesc, "plate") \/ Includes(lowerDesc, "face") THEN "face_plate"
  ELSE IF Includes(lowerDesc, "clip") \/ Includes(lowerDesc, "spring") THEN "clip"
  ELSE "shim"

\* AIAssistant.fallbackSuggestion
fallbackSuggestion(lowerDesc, measArray) ==
  LET partType == fallbackPartType(lowerDesc)
  IN  [ part_type  |-> Some(partType),
        parameters |-> Some(generateBasicParameters(partType, measArray)),
        notes      |-> "Generated using keyword matching (AI unavailable)" ]

\* `if (params.thickness)` and Math.max(params.thickness, min_thickness)
clampThickness(numbers) ==
  IF "thickness" \in DOMAIN numbers /\ numbers["thickness"] # 0
     /\ numbers["thickness"] < min_thickness
  THEN [ numbers EXCEPT !["thickness"] = min_thickness ]
  ELSE numbers

\* AIAssistant.validateSuggestion: the Error for a suggestion without
\* part_type ('' included) or parameters, else the suggestion clamped.
validateSuggestion(suggestion) ==
  IF suggestion.part_type = Nil \/ suggestion.part_type = Some("")
     \/ suggestion.parameters = Nil
  THEN Thrown("Invalid suggestion format")
  ELSE LET params  == suggestion.parameters[1]
           thick   == clampThickness(params.numbers)
           holes   == IF params.holes = Nil THEN Nil
                      ELSE Some([ i \in 1..Len(params.holes[1]) |->
                                    IF params.holes[1][i] < min_hole_diameter
                                    THEN min_hole_diameter ELSE params.holes[1][i] ])
           bounded == [ k \in DOMAIN thick |->
                          IF thick[k] > max_dimension THEN max_dimension ELSE thick[k] ]
       IN  Returned([ suggestion EXCEPT !.parameters = Some(Parameters(bounded, holes)) ])

\* The try block of suggestPart after the request was sent: fetch rejects,
\* response.ok is false, the content does not parse, or it parses and goes
\* to validateSuggestion.
aiPath(reply) ==
  CASE reply.outcome = "network error" -> Thrown("Failed to fetch")
    [] reply.outcome = "status"        -> Thrown("OpenAI API error")
    [] reply.outcome = "unparsable"    -> Thrown("SyntaxError")
    [] OTHER                           -> validateSuggestion(reply.suggestion[1])

\* The catch block of suggestPart.
catchError_rethrow(attempt, fallback) == attempt
catchError(attempt, fallback) == IF attempt.ok THEN attempt ELSE Returned(fallback)

\* AIAssistant.suggestPart: what the promise settles with.
suggestPart(lowerDesc, measArray, reply) ==
  catchError(aiPath(reply), fallbackSuggestion(lowerDesc, measArray))

Keywords ==
  { "washer", "disc", "bracket", "l-shape", "clamp", "u-shape", "plate", "face",
    "clip", "spring" }

\* The descriptions a caller passes.
Descriptions == { d \in SUBSET Keywords : Cardinality(d) <= MaxKeywords }

\* The values of the measurements object a caller passes (tenths of mm).
MeasurementArrays ==
  { << >>, << 500, 300 >>, << 500, 300, 20 >>, << 0, 300, 5 >>, << 500, 300, 20, 40 >> }

\* The suggestions the model's answer may parse to.
AiSuggestions ==
  { [ part_type |-> t, parameters |-> ps, notes |-> "" ] :
      t \in { Nil, Some(""), Some("shim"), Some("face_plate") },
      ps \in { Nil } \cup
             { Some(Parameters(numbers, holes)) :
                 numbers \in UNION { [ K -> { -10, 0, 5, 20, 500, 2500 } ] :
                                       K \in SUBSET { "length", "thickness" } },
                 holes \in { Nil, Some(<< >>), Some(<< 0 >>), Some(<< 10, 30 >>) } } }

AiReplies ==
  { [ outcome |-> o, suggestion |-> Nil ] : o \in { "network error", "status", "unparsable" } }
  \cup { [ outcome |-> "parsed", suggestion |-> Some(s) ] : s \in AiSuggestions }

\* A caller calls suggestPart and the request is answered; one call is followed.
SuggestPart ==
  /\ suggestCall = Nil
  /\ \E lowerDesc \in Descriptions, measArray \in MeasurementArrays, reply \in AiReplies :
       /\ suggestCall' = Some([ description |-> lowerDesc, measurements |-> measArray,
                                reply |-> reply ])
       /\ suggestResult' = Some(suggestPart(lowerDesc, measArray, reply))
  /\ UNCHANGED notSuggestVars

NextSuggest == SuggestPart

SpecSuggest == Init /\ [][NextSuggest]_vars

(***************************************************************************)
(* The web app's session (specification SpecSession)                       *)
(*                                                                         *)
(* RepairPartGenerator's references (selectedPartType, currentSpec,        *)
(* currentRecipe, currentPart), the export button, the status line and the *)
(* calls waiting for the AI.  The solids are followed in SpecWeb and       *)
(* SpecRecipe; here currentPart keeps which call made the mesh it holds.   *)
(* A text that exportSTL rewrites is a sequence of characters.             *)
(***************************************************************************)
Upper == << "A", "B", "C", "D", "E", "F", "G", "H", "I", "J", "K", "L", "M",
            "N", "O", "P", "Q", "R", "S", "T", "U", "V", "W", "X", "Y", "Z" >>
Lower == << "a", "b", "c", "d", "e", "f", "g", "h", "i", "j", "k", "l", "m",
            "n", "o", "p", "q", "r", "s", "t", "u", "v", "w", "x", "y", "z" >>
Digits == << "0", "1", "2", "3", "4", "5", "6", "7", "8", "9" >>

\* String.prototype.toLowerCase
toLowerCase(text) ==
  [ i \in DOMAIN text |->
      IF \E j \in DOMAIN Upper : Upper[j] = text[i]
      THEN Lower[CHOOSE j \in DOMAIN Upper : Upper[j] = text[i]]
      ELSE text[i] ]

\* The class [a-z0-9].
isLowerAlnum(c) ==
  (\E j \in DOMAIN Lower : Lower[j] = c) \/ (\E j \in DOMAIN Digits : Digits[j] = c)

\* What is left of text after its leading characters outside [a-z0-9].
RECURSIVE afterRun(_)
afterRun(text) ==
  IF text = << >> \/ isLowerAlnum(Head(text)) THEN text ELSE afterRun(Tail(text))

\* .replace(/[^a-z0-9]+/g, '_')
RECURSIVE replaceRuns(_)
replaceRuns(text) ==
  IF text = << >> THEN << >>
  ELSE IF isLowerAlnum(Head(text)) THEN << Head(text) >> \o replaceRuns(Tail(text))
  ELSE << "_" >> \o replaceRuns(afterRun(text))

\* .replace(/^_+|_+$/g, '')
RECURSIVE trimUnderscores(_)
trimUnderscores(text) ==
  IF text = << >> THEN << >>
  ELSE IF Head(text) = "_" THEN trimUnderscores(Tail(text))
  ELSE IF text[Len(text)] = "_" THEN trimUnderscores(SubSeq(text, 1, Len(text) - 1))
  ELSE text

\* A part name of exportSTL: one of the program's words, or the characters
\* computed from a description.
PartName(word, chars) == [ word |-> word, chars |-> chars ]

\* exportSTL's choice of partName.
exportPartName(spec, recipeNow) ==
  IF spec # Nil /\ spec[1].part_type # Nil /\ spec[1].part_type[1] # ""
  THEN PartName(spec[1].part_type[1], << >>)
  ELSE IF recipeNow # Nil /\ recipeNow[1].description # << >>
  THEN PartName("", trimUnderscores(replaceRuns(toLowerCase(recipeNow[1].description))))
  ELSE PartName("part", << >>)

\* The keywords of fallbackSuggestion that PART_TYPES[partType].name holds.
partTypeName(partType) ==
  CASE partType = "washer"     -> { "washer" }
    [] partType = "l_bracket"  -> { "bracket" }
    [] partType = "u_clamp"    -> { "clamp" }
    [] partType = "face_plate" -> { "plate", "face" }
    [] partType = "clip"       -> { "clip" }
    [] OTHER                   -> { }

\* Object.values of the object getMeasurementsForAI returns.
objectValues(named) ==
  LET order == << "length", "width", "thickness", "hole_diameter" >>
  IN  [ i \in 1..Cardinality(DOMAIN named) |-> named[order[i]] ]

\* updateGenerateButton: whether the button is left enabled.
generateBtnEnabled(m, selected) ==
  DOMAIN getMeasurements(m) # { } \/ selected # Nil

\* generatePart of main.js from `const validation` on: the mesh that becomes
\* this.currentPart, or the Error the catch block reports.
validateAndGenerate(spec) ==
  IF ~ validateParameters(spec.parameters[1]).valid THEN Thrown("Invalid parameters")
  ELSE IF spec.part_type[1] \notin { "shim", "washer", "l_bracket", "u_clamp",
                                     "face_plate", "clip" }
  THEN Thrown("Unknown part type")
  ELSE Returned(PartFrom("generatePart", spec.part_type[1], << >>))

\* A step of a recipe: params in tenths of a millimetre.
RecipeStep(operation, shape, params, position) ==
  [ operation |-> operation, shape |-> shape, params |-> params, position |-> position ]

\* AIAssistant.fallbackRecipe
fallbackRecipe(lowerDesc, measArray) ==
  IF Includes(lowerDesc, "lid") \/ Includes(lowerDesc, "cap")
  THEN [ description |-> << "S", "i", "m", "p", "l", "e", " ", "l", "i", "d" >>,
         steps |-> Some(<< RecipeStep("add", "cylinder",
                                      [ diameter |-> MeasuredOr(measArray, 1, 280) + 20,
                                        height   |-> 150 ], << 0, 0, 0 >>),
                           RecipeStep("subtract", "cylinder",
                                      [ diameter |-> MeasuredOr(measArray, 1, 280) - 3,
                                        height   |-> 120 ], << 0, 15, 0 >>) >>) ]
  ELSE [ description |-> << "S", "i", "m", "p", "l", "e", " ", "c", "y", "l", "i", "n",
                            "d", "e", "r", " ", "s", "h", "a", "p", "e" >>,
         steps |-> Some(<< RecipeStep("add", "cylinder",
                                      [ diameter |-> MeasuredOr(measArray, 1, 300),
                                        height   |-> MeasuredOr(measArray, 2, 150) ],
                                      << 0, 0, 0 >>) >>) ]

\* AIAssistant.validateRecipe on the object parsed from the reply: the throw
\* for a missing steps array, then the rewriting of the steps.
validateRecipeObject(parsed) ==
  IF parsed.steps = Nil THEN Thrown("Invalid recipe: missing steps array")
  ELSE Returned([ parsed EXCEPT !.steps = Some(validateRecipe(parsed.steps[1])) ])

\* AIAssistant.generateShapeRecipe: what the promise resolves with.
generateShapeRecipe(lowerDesc, measArray, reply) ==
  LET attempt == IF reply.outcome = "parsed" THEN validateRecipeObject(reply.recipe[1])
                 ELSE Thrown(reply.outcome)
  IN  IF attempt.ok THEN attempt.value[1] ELSE fallbackRecipe(lowerDesc, measArray)

\* The for loop of executeRecipe from step i on, as far as its Errors go:
\* createPrimitive, then the switch on the operation for every step but the
\* first.
RECURSIVE executeSteps(_, _)
executeSteps(steps, i) ==
  IF i > Len(steps) THEN Returned("mesh")
  ELSE LET made == createPrimitive(steps[i].shape, steps[i].params)
       IN  IF ~ made.ok THEN Thrown(made.error)
           ELSE IF i > 1 /\ steps[i].operation \notin { "add", "subtract", "intersect" }
           THEN Thrown("Unknown operation")
           ELSE executeSteps(steps, i + 1)

\* RecipeEngine.executeRecipe: whether it returns a mesh, or the Error.
executeRecipe(recipeGiven) ==
  LET entry == entryCheck(recipeGiven.steps # Nil, OrElse(recipeGiven.steps, << >>))
  IN  IF ~ entry.ok THEN entry ELSE executeSteps(recipeGiven.steps[1], 1)

\* What the user types at generatePart's prompt, as the keywords it holds:
\* nothing, which stands for 'basic spacer'.
PromptDescriptions == { { } }

\* What the user types at generateCustomShape's prompt.
ShapeDescriptions == { { "lid" } }

\* The replies to suggestPart followed here: no answer, a washer, and a shim
\* of thickness 0.
SessionReplies ==
  { [ outcome |-> "network error", suggestion |-> Nil ],
    [ outcome |-> "parsed",
      suggestion |-> Some([ part_type |-> Some("washer"),
                            parameters |-> Some(Parameters([ outer_diameter |-> 120,
                                                             thickness |-> 5 ], Nil)),
                            notes |-> "" ]) ],
    [ outcome |-> "parsed",
      suggestion |-> Some([ part_type |-> Some("shim"),
                            parameters |-> Some(Parameters([ length |-> 300,
                                                             thickness |-> 0 ], Nil)),
                            notes |-> "" ]) ] }

\* The replies to generateShapeRecipe followed here: no answer, a funnel of
\* one cone, a knob whose second step has an operation the engine does not
\* know, and a recipe with no steps.
ShapeReplies ==
  { [ outcome |-> "network error", recipe |-> Nil ],
    [ outcome |-> "parsed",
      recipe |-> Some([ description |-> << "F", "u", "n", "n", "e", "l", " ", "(", "v",
                                           "2", ")" >>,
                        steps |-> Some(<< RecipeStep("subtract", "cone",
                                                     [ diameter |-> 400, height |-> 300 ],
                                                     Nil) >>) ]) ],
    [ outcome |-> "parsed",
      recipe |-> Some([ description |-> << "K", "n", "o", "b" >>,
                        steps |-> Some(<< RecipeStep("add", "cylinder",
                                                     [ diameter |-> 200, height |-> 100 ],
                                                     Nil),
                                          RecipeStep("union", "sphere",
                                                     [ diameter |-> 250 ], Nil) >>) ]) ],
    [ outcome |-> "parsed",
      recipe |-> Some([ description |-> << "P", "l", "u", "g" >>,
                        steps |-> Some(<< >>) ]) ] }

\* RepairPartGenerator.init in a browser whose stored preferred_mode is
\* 'demo': arManager.initialize, then the AIAssistant, made with the key the
\* browser has stored or with none, and the listeners.  When initialize
\* resolves with false init throws and there is no assistant.
RepairPartGeneratorInit ==
  /\ InitializeAR({ "demo" })
  /\ \E hasKey \in BOOLEAN :
       aiAssistant' = IF arInitialized' = Some(TRUE) THEN Some(hasKey) ELSE Nil
  /\ UNCHANGED << selectedPartType, currentSpec, currentRecipe, exportBtn,
                  pendingPart, pendingShape, lastDownload >>
  /\ UNCHANGED notWebSessionVars

\* The part buttons that are clicked.
PartButtons == { "washer" }

\* RepairPartGenerator.selectPartType, from a click on a part button.
SelectPartType ==
  /\ aiAssistant # Nil
  /\ \E partType \in PartButtons : selectedPartType' = Some(partType)
  /\ UNCHANGED << aiAssistant, currentSpec, currentRecipe, exportBtn,
                  pendingPart, pendingShape, lastDownload >>
  /\ UNCHANGED << webVars, notWebSessionVars >>

\* generatePart of main.js once this.currentSpec is spec: validation, the
\* mesh, the export button and the status, or the catch block.
GeneratePartWith(spec) ==
  /\ currentSpec' = Some(spec)
  /\ LET made == validateAndGenerate(spec)
     IN  IF made.ok
         THEN /\ currentPart' = Some(made.value[1])
              /\ exportBtn' = TRUE
              /\ webStatus' = "Part generated! Rotate to view"
         ELSE /\ webStatus' = "Failed: " \o made.error
              /\ UNCHANGED << currentPart, exportBtn >>

\* RepairPartGenerator.generatePart, from a click on the enabled generate
\* button, up to its return or to its `await`.  One call is followed at a time.
GeneratePart ==
  /\ aiAssistant # Nil
  /\ generateBtnEnabled(measurements, selectedPartType)
  /\ pendingPart = Nil
  /\ LET named == getMeasurementsForAI(measurements)
     IN  IF selectedPartType = Nil
         THEN /\ webStatus' = "Generating part..."
              /\ IF aiAssistant[1]
                 THEN \E description \in PromptDescriptions :
                        pendingPart' = Some([ description  |-> description,
                                              measurements |-> objectValues(named),
                                              setsPartType |-> TRUE ])
                 ELSE UNCHANGED pendingPart
              /\ UNCHANGED << currentSpec, currentPart, exportBtn >>
         ELSE IF aiAssistant[1] /\ DOMAIN named # { }
         THEN /\ webStatus' = "Generating part..."
              /\ pendingPart' = Some([ description  |-> partTypeName(selectedPartType[1]),
                                       measurements |-> objectValues(named),
                                       setsPartType |-> FALSE ])
              /\ UNCHANGED << currentSpec, currentPart, exportBtn >>
         ELSE /\ GeneratePartWith(fallbackSuggestion(partTypeName(selectedPartType[1]),
                                                     objectValues(named)))
              /\ UNCHANGED pendingPart
  /\ UNCHANGED << aiAssistant, selectedPartType, currentRecipe, pendingShape, lastDownload >>
  /\ UNCHANGED << arObjects, arInitialized, demoMode, measurementCenter, scenePart, webStl,
                  points, measurements, markerMode, markerDetected, pointsPlaced >>
  /\ UNCHANGED notWebSessionVars

\* generatePart resumes when suggestPart has settled.
GeneratePartResume ==
  /\ pendingPart # Nil
  /\ \E reply \in SessionReplies :
       LET call == pendingPart[1]
           spec == suggestPart(call.description, call.measurements, reply).value[1]
       IN  /\ GeneratePartWith(spec)
           /\ selectedPartType' = IF call.setsPartType THEN spec.part_type
                                  ELSE selectedPartType
  /\ pendingPart' = Nil
  /\ UNCHANGED << aiAssistant, currentRecipe, pendingShape, lastDownload >>
  /\ UNCHANGED << arObjects, arInitialized, demoMode, measurementCenter, scenePart, webStl,
                  points, measurements, markerMode, markerDetected, pointsPlaced >>
  /\ UNCHANGED notWebSessionVars

\* generateCustomShape once the recipe is there: currentRecipe, then
\* executeRecipe and what follows it, or the catch block.
CustomShapeWith(recipeGiven) ==
  /\ currentRecipe' = Some(recipeGiven)
  /\ LET made == executeRecipe(recipeGiven)
     IN  IF made.ok
         THEN /\ currentPart' = Some(PartFrom("generateCustomShape", "",
                                              recipeGiven.description))
              /\ exportBtn' = TRUE
              /\ webStatus' = "Custom shape generated!"
         ELSE /\ webStatus' = "Failed: " \o made.error
              /\ UNCHANGED << currentPart, exportBtn >>

\* RepairPartGenerator.generateCustomShape with a description typed at the
\* prompt, up to its return or to its `await` of the AI.
GenerateCustomShape ==
  /\ aiAssistant # Nil
  /\ pendingShape = Nil
  /\ \E description \in ShapeDescriptions :
       LET measArray == objectValues(getMeasurementsForAI(measurements))
       IN  IF aiAssistant[1]
           THEN /\ pendingShape' = Some([ description |-> description,
                                          measurements |-> measArray ])
                /\ webStatus' = "AI generating shape recipe..."
                /\ UNCHANGED << currentRecipe, currentPart, exportBtn >>
           ELSE /\ CustomShapeWith(fallbackRecipe(description, measArray))
                /\ UNCHANGED pendingShape
  /\ UNCHANGED << aiAssistant, selectedPartType, currentSpec, pendingPart, lastDownload >>
  /\ UNCHANGED << arObjects, arInitialized, demoMode, measurementCenter, scenePart, webStl,
                  points, measurements, markerMode, markerDetected, pointsPlaced >>
  /\ UNCHANGED notWebSessionVars

\* generateCustomShape resumes when generateShapeRecipe has resolved.
GenerateCustomShapeResume ==
  /\ pendingShape # Nil
  /\ \E reply \in ShapeReplies :
       CustomShapeWith(generateShapeRecipe(pendingShape[1].description,
                                           pendingShape[1].measurements, reply))
  /\ pendingShape' = Nil
  /\ UNCHANGED << aiAssistant, selectedPartType, currentSpec, pendingPart, lastDownload >>
  /\ UNCHANGED << arObjects, arInitialized, demoMode, measurementCenter, scenePart, webStl,
                  points, measurements, markerMode, markerDetected, pointsPlaced >>
  /\ UNCHANGED notWebSessionVars

\* RepairPartGenerator.exportSTL, from a click on the export button: the
\* name of the file that is downloaded, and the part it holds.
ExportSTLFile ==
  /\ aiAssistant # Nil
  /\ exportBtn
  /\ IF currentPart = Nil
     THEN UNCHANGED << lastDownload, webStatus >>
     ELSE /\ lastDownload' = Some([ partName |-> exportPartName(currentSpec, currentRecipe),
                                    part     |-> currentPart[1] ])
          /\ webStatus' = "STL exported successfully!"
  /\ UNCHANGED << aiAssistant, selectedPartType, currentSpec, currentRecipe, exportBtn,
                  pendingPart, pendingShape >>
  /\ UNCHANGED << arObjects, arInitialized, demoMode, measurementCenter, scenePart, currentPart, webStl,
                  points, measurements, markerMode, markerDetected, pointsPlaced >>
  /\ UNCHANGED notWebSessionVars

\* A click on the clear button, once init has set the listeners up.
ClearButton == aiAssistant # Nil /\ ClearAll

NextSession ==
  \/ RepairPartGeneratorInit
  \/ ScreenTap
  \/ SelectPartType
  \/ GeneratePart
  \/ GeneratePartResume
  \/ GenerateCustomShape
  \/ GenerateCustomShapeResume
  \/ ExportSTLFile
  \/ ClearButton

SpecSession == Init /\ [][NextSession]_vars

(***************************************************************************)
(* The iOS measurements (specification SpecMeasure)                        *)
(*                                                                         *)
(* MeasurementState.measurements and the Coordinator's nodes.  A           *)
(* measurement is its UUID, a node is a number; both are handed out in     *)
(* order, the n-th tap making node 3n-2 and, when it completes a           *)
(* measurement, the line 3n-1, the label 3n and the measurement n.         *)
(***************************************************************************)

\* The taps followed.
MaxTaps == 8

\* Coordinator.clearAllMeasurements: what is left under the rootNode.
clearAllMeasurements(lines, pending, root) ==
  root \ ({ lines[i].nodes[j] : i \in DOMAIN lines, j \in 1..4 }
          \cup (IF pending = Nil THEN { } ELSE { pending[1] }))

\* `measurements.removeAll { $0.id == id }`
removeAllWithId(ids, id) == SelectSeq(ids, LAMBDA m : m # id)

\* Coordinator.handleTap for a tap whose raycast hits a surface, with
\* addMeasurementPoint and MeasurementState.addMeasurement.
HandleTap ==
  /\ tapCount < MaxTaps
  /\ tapCount' = tapCount + 1
  /\ LET node == 3 * tapCount' - 2
         lineNode == 3 * tapCount' - 1
         textNode == 3 * tapCount'
         measurementID == tapCount'
     IN  IF pendingPoint = Nil
         THEN /\ pendingPoint' = Some(node)
              /\ rootNodes' = rootNodes \cup { node }
              /\ UNCHANGED << stateMeasurements, measurementLines >>
         ELSE /\ rootNodes' = rootNodes \cup { node, lineNode, textNode }
              /\ stateMeasurements' = Append(stateMeasurements, measurementID)
              /\ measurementLines' =
                   Append(measurementLines,
                          [ id |-> measurementID,
                            nodes |-> << pendingPoint[1], node, lineNode, textNode >> ])
              /\ pendingPoint' = Nil
  /\ UNCHANGED notMeasureVars

\* MeasurementState.removeMeasurement(id:), from the sidebar's delete button:
\* the measurement goes, then onClearRequested runs clearAllMeasurements.
RemoveMeasurement ==
  /\ \E i \in DOMAIN stateMeasurements :
       stateMeasurements' = removeAllWithId(stateMeasurements, stateMeasurements[i])
  /\ rootNodes' = clearAllMeasurements(measurementLines, pendingPoint, rootNodes)
  /\ measurementLines' = << >>
  /\ pendingPoint' = Nil
  /\ UNCHANGED tapCount
  /\ UNCHANGED notMeasureVars

\* MeasurementState.clear(), as clearMeasurements calls it: every measurement
\* goes, then onClearRequested runs clearAllMeasurements.
MeasurementStateClear ==
  /\ stateMeasurements # << >> \/ pendingPoint # Nil
  /\ stateMeasurements' = << >>
  /\ rootNodes' = clearAllMeasurements(measurementLines, pendingPoint, rootNodes)
  /\ measurementLines' = << >>
  /\ pendingPoint' = Nil
  /\ UNCHANGED tapCount
  /\ UNCHANGED notMeasureVars

NextMeasure ==
  \/ HandleTap
  \/ RemoveMeasurement
  \/ MeasurementStateClear

SpecMeasure == Init /\ [][NextMeasure]_vars

(***************************************************************************)
(* Properties of the Composite Part Builder (specification Spec)           *)
(***************************************************************************)

\* The part on display came from generateFromAI, applied to SuggestedBag.
FromSuggestion == currentAISuggestion # Nil /\ currentPartNode # Nil
SuggestedBag == currentAISuggestion[1]
PartNode == currentPartNode[1]

HasAny(bag, keys) == \E k \in keys : k \in DOMAIN bag
HasAll(bag, keys) == \A k \in keys : k \in DOMAIN bag

PhoneKeys      == { "phone_width", "phone_height", "phone_depth" }
DiameterLike   == { "diameter", "outer_diameter", "base_diameter" }
InnerLike      == { "inner_diameter", "inner_d" }
HeightLike     == { "height", "thickness", "depth", "h" }
LengthLike     == { "length", "l" }
WidthLike      == { "width", "w" }
Leg1Like       == { "leg_length_1", "leg1" }
Leg2Like       == { "leg_length_2", "leg2" }

\* The value of the first key of `order` the bag holds (the bag holds one).
FirstPresent(bag, order) ==
  LET i == CHOOSE n \in 1..Len(order) :
             /\ order[n] \in DOMAIN bag
             /\ \A m \in 1..(n - 1) : order[m] \notin DOMAIN bag
  IN  bag[order[i]]

ValueOr(bag, key, default) == IF key \in DOMAIN bag THEN bag[key] ELSE default

\* The rules 3 to 6 of the classification order, shared by both readings.
RulesFromDiameter(bag) ==
  IF HasAny(bag, DiameterLike)
  THEN IF HasAny(bag, InnerLike) /\ HasAny(bag, HeightLike) THEN "Cap/Lid with Top"
       ELSE IF HasAny(bag, HeightLike) THEN "Solid Cylinder/Knob"
       ELSE "Sphere/Ball"
  ELSE IF HasAny(bag, LengthLike) /\ HasAny(bag, WidthLike) THEN "Rectangle/Shim/Plate"
  ELSE IF HasAny(bag, HeightLike) THEN "Fallback cylinder"
  ELSE "Fallback to default 30x30x2mm shim"

\* Rule 2 read as stated: the keys leg_length_1 and leg_length_2 themselves.
StatedArchetype(bag) ==
  IF HasAll(bag, PhoneKeys) THEN "Phone Case/Enclosure"
  ELSE IF HasAll(bag, { "leg_length_1", "leg_length_2" }) THEN "L-Bracket"
  ELSE RulesFromDiameter(bag)

\* Rule 2 with the synonyms the builder accepts for the two legs.
ResolvedArchetype(bag) ==
  IF HasAll(bag, PhoneKeys) THEN "Phone Case/Enclosure"
  ELSE IF HasAny(bag, Leg1Like) /\ HasAny(bag, Leg2Like) THEN "L-Bracket"
  ELSE RulesFromDiameter(bag)

\* The geometry kinds of a node tree, root first.
TreeKinds(node) ==
  << node.geometry.kind >> \o [i \in 1..Len(node.childNodes) |-> node.childNodes[i].geometry.kind]

KindsOf(archetype) ==
  CASE archetype = "Phone Case/Enclosure" -> << "box" >>
    [] archetype = "L-Bracket"            -> << "none", "box", "box" >>
    [] archetype = "Cap/Lid with Top"     -> << "none", "cylinder", "cylinder" >>
    [] archetype = "Solid Cylinder/Knob"  -> << "cylinder" >>
    [] archetype = "Sphere/Ball"          -> << "sphere" >>
    [] archetype = "Rectangle/Shim/Plate" -> << "box" >>
    [] archetype = "Fallback cylinder"    -> << "cylinder" >>
    [] OTHER                              -> << "box" >>

\* C1 as stated: generateFromAI selects the archetype of the first matching
\* rule of: phone_width, phone_height and phone_depth -> enclosure;
\* leg_length_1 and leg_length_2 -> L-bracket; diameter-like -> cap, solid
\* cylinder or sphere; length-like and width-like -> block; height-like ->
\* fallback cylinder; otherwise the default shim.
C1_FirstRuleAsStated ==
  FromSuggestion => lastLog = StatedArchetype(SuggestedBag)

\* C1 amended: the same order, where rule 2 matches when a first-leg key
\* (leg_length_1 or leg1) and a second-leg key (leg_length_2 or leg2) are
\* present; the node built is the one of the selected archetype.
C1_FirstRuleWins ==
  FromSuggestion =>
    /\ lastLog = ResolvedArchetype(SuggestedBag)
    /\ TreeKinds(PartNode) = KindsOf(ResolvedArchetype(SuggestedBag))

\* A bag that satisfies rules 2, 3 and 5 at once and got the bracket.
C1_Witness ==
  /\ FromSuggestion
  /\ HasAny(SuggestedBag, Leg1Like) /\ HasAny(SuggestedBag, Leg2Like)
  /\ HasAny(SuggestedBag, DiameterLike) /\ HasAny(SuggestedBag, HeightLike)
  /\ lastLog = "L-Bracket"

\* C2: every slot resolves to the value of the first present key of its
\* ordered synonym list; the height-like slot in the order height,
\* thickness, depth, h.  The slots are read off the node that was built.
C2_FirstSynonymWins ==
  FromSuggestion =>
    LET bag  == SuggestedBag
        geom == PartNode.geometry
        hOrder == << "height", "thickness", "depth", "h" >>
    IN  /\ lastLog = "Solid Cylinder/Knob" =>
             /\ geom.height = FirstPresent(bag, hOrder) \div 1000
             /\ geom.radius = FirstPresent(bag, << "diameter", "outer_diameter", "base_diameter" >>) \div 2000
        /\ lastLog = "Fallback cylinder" =>
             geom.height = FirstPresent(bag, hOrder) \div 1000
        /\ lastLog = "Cap/Lid with Top" =>
             PartNode.childNodes[1].geometry.height = FirstPresent(bag, hOrder) \div 1000
        /\ lastLog = "Rectangle/Shim/Plate" =>
             /\ geom.width = FirstPresent(bag, << "length", "l" >>) \div 1000
             /\ geom.length = FirstPresent(bag, << "width", "w" >>) \div 1000
             /\ HasAny(bag, HeightLike) => geom.height = FirstPresent(bag, hOrder) \div 1000
        /\ lastLog = "L-Bracket" =>
             /\ PartNode.childNodes[1].geometry.width
                  = FirstPresent(bag, << "leg_length_1", "leg1" >>) \div 1000
             /\ PartNode.childNodes[1].geometry.length
                  = FirstPresent(bag, << "leg_length_2", "leg2" >>) \div 1000

\* Two height-like synonyms with different values, the earlier one used.
C2_Witness ==
  /\ FromSuggestion
  /\ lastLog = "Solid Cylinder/Knob"
  /\ HasAll(SuggestedBag, { "height", "thickness" })
  /\ SuggestedBag["height"] # SuggestedBag["thickness"]
  /\ PartNode.geometry.height = SuggestedBag["height"] \div 1000

\* C3: in a cap built from a bag holding both diameter and outer_diameter,
\* the outer diameter of the cap is the value of outer_diameter.
C3_OuterDiameterFirst ==
  ( /\ FromSuggestion
    /\ lastLog = "Cap/Lid with Top"
    /\ HasAll(SuggestedBag, { "diameter", "outer_diameter" }) )
  => PartNode.childNodes[1].geometry.radius = SuggestedBag["outer_diameter"] \div 2000

\* C4 as stated: the enclosure box is phone_width + fit_clearance +
\* 2 * wall_thickness wide, phone_height + fit_clearance + 2 * wall_thickness
\* high and phone_depth + fit_clearance + back_thickness deep, the three
\* optional keys defaulting to 0.8, 2.0 and 2.5 mm when absent from the bag.
C4_OuterBoxAsStated ==
  (FromSuggestion /\ lastLog = "Phone Case/Enclosure") =>
    LET bag  == SuggestedBag
        fit  == ValueOr(bag, "fit_clearance", MM(8))
        wall == ValueOr(bag, "wall_thickness", MM(20))
        back == ValueOr(bag, "back_thickness", MM(25))
    IN  /\ PartNode.geometry.width  = (bag["phone_width"] + fit + 2 * wall) \div 1000
        /\ PartNode.geometry.height = (bag["phone_height"] + fit + 2 * wall) \div 1000
        /\ PartNode.geometry.length = (bag["phone_depth"] + fit + back) \div 1000

\* C4 amended: the same dimensions, where the wall thickness is the value of
\* wall_thickness, else of its synonym wall, else 2.0 mm.
C4_OuterBox ==
  (FromSuggestion /\ lastLog = "Phone Case/Enclosure") =>
    LET bag  == SuggestedBag
        fit  == ValueOr(bag, "fit_clearance", MM(8))
        wall == ValueOr(bag, "wall_thickness", ValueOr(bag, "wall", MM(20)))
        back == ValueOr(bag, "back_thickness", MM(25))
    IN  /\ PartNode.geometry.kind = "box"
        /\ PartNode.childNodes = << >>
        /\ PartNode.geometry.width  = (bag["phone_width"] + fit + 2 * wall) \div 1000
        /\ PartNode.geometry.height = (bag["phone_height"] + fit + 2 * wall) \div 1000
        /\ PartNode.geometry.length = (bag["phone_depth"] + fit + back) \div 1000

\* An enclosure whose back thickness came from the bag and whose clearance
\* and wall thickness are the defaults.
C4_Witness ==
  /\ FromSuggestion
  /\ lastLog = "Phone Case/Enclosure"
  /\ "back_thickness" \in DOMAIN SuggestedBag
  /\ ~ HasAny(SuggestedBag, { "fit_clearance", "wall_thickness", "wall" })

\* The number of hole cylinders a node tree holds.
MeshHoles(node) ==
  Cardinality({ i \in 1..Len(node.childNodes) : node.childNodes[i].geometry.kind = "cylinder" })

C6_CapHasThreeParts ==
  (FromSuggestion /\ lastLog = "Cap/Lid with Top") =>
    LET bag  == SuggestedBag
        kids == PartNode.childNodes
    IN  /\ Len(kids) = 3
        /\ kids[1].geometry.kind = "cylinder"
        /\ kids[2].geometry.height = ValueOr(bag, "top_thickness", MM(20)) \div 1000
        /\ kids[2].position[2] - (kids[2].geometry.height \div 2)
             = kids[1].position[2] + (kids[1].geometry.height \div 2)
        /\ kids[3].geometry.radius
             = FirstPresent(bag, << "inner_diameter", "inner_d" >>) \div 2000

\* No rule of the classification order matches the bag.
NoRuleMatches(bag) ==
  /\ ~ HasAll(bag, PhoneKeys)
  /\ ~ (HasAny(bag, Leg1Like) /\ HasAny(bag, Leg2Like))
  /\ ~ HasAny(bag, DiameterLike)
  /\ ~ (HasAny(bag, LengthLike) /\ HasAny(bag, WidthLike))
  /\ ~ HasAny(bag, HeightLike)

\* C7: for every bag generateFromAI returns a node that holds geometry, and
\* when no rule matches the node is the 30 x 30 x 2 mm shim.
C7_TotalWithDefaultShim ==
  FromSuggestion =>
    /\ collectGeometries(PartNode) # << >>
    /\ NoRuleMatches(SuggestedBag) =>
         /\ PartNode.childNodes = << >>
         /\ PartNode.geometry = SCNBox(MM(300) \div 1000, MM(20) \div 1000, MM(300) \div 1000)

\* The empty bag, generated.
C7_Witness ==
  /\ FromSuggestion
  /\ SuggestedBag = EmptyBag
  /\ PartNode.geometry.kind = "box"

\* C8: a shim requested with length 100 mm is exported with an extent of
\* exactly 100 units along its length axis.
C8_ExportedLengthIs100 ==
  ( /\ FromSuggestion
    /\ lastLog = "Rectangle/Shim/Plate"
    /\ "length" \in DOMAIN SuggestedBag
    /\ SuggestedBag["length"] = 100 * Unit
    /\ stlFile # Nil )
  => stlFile[1][1] = 100 * Unit

(***************************************************************************)
(* Properties of the Recipe Execution Engine (specification SpecRecipe)    *)
(***************************************************************************)

\* The primitive of a step, translated by the step's position.
StepSolid(step) ==
  LET at == IF step.position = Nil THEN << 0, 0, 0 >> ELSE step.position
  IN  { << p[1] + at[1], p[2] + at[2] >> :
          p \in PointsOf(createPrimitive(step.shape, step.params).value[1]) }

Combine(op, acc, solid) ==
  CASE op = "add"       -> acc \cup solid
    [] op = "subtract"  -> acc \ solid
    [] op = "intersect" -> acc \cap solid

\* The left fold of the first n steps: the first primitive, then each step's
\* operation applied to the result of all the steps before it.
RECURSIVE LeftFold(_, _)
LeftFold(steps, n) ==
  IF n = 1 THEN StepSolid(steps[1])
  ELSE Combine(steps[n].operation, LeftFold(steps, n - 1), StepSolid(steps[n]))

\* C9: after step i the running result is op_i applied to the running
\* result after step i - 1 and primitive_i translated by position_i, in
\* array order.
C9_LeftFoldInOrder ==
  stepIndex >= 1 => WorldPoints(resultBrush[1]) = LeftFold(recipe, stepIndex)

\* [add A, subtract B, add C] finished, and exchanging its steps 2 and 3
\* gives another solid.
C9_Witness ==
  /\ recipeState = "done"
  /\ Len(recipe) = 3
  /\ recipe[2].operation = "subtract"
  /\ recipe[3].operation = "add"
  /\ WorldPoints(resultBrush[1]) # LeftFold(<< recipe[1], recipe[3], recipe[2] >>, 3)

\* Every step, the first included, applied to the result so far, starting
\* from the empty solid; an unknown shape or operation throws.
RECURSIVE UniformFold(_, _)
UniformFold(steps, n) ==
  IF n = 0 THEN Returned({})
  ELSE LET before == UniformFold(steps, n - 1)
       IN  IF ~ before.ok THEN before
           ELSE IF ~ createPrimitive(steps[n].shape, steps[n].params).ok
                THEN Thrown("Unknown shape type")
           ELSE IF steps[n].operation \notin { "add", "subtract", "intersect" }
                THEN Thrown("Unknown operation")
           ELSE Returned(Combine(steps[n].operation, before.value[1], StepSolid(steps[n])))

FirstAsAdd(steps) == [steps EXCEPT ![1].operation = "add"]

\* C10: whatever the first step's operation is, executeRecipe ends as the
\* recipe with "add" in its place does: the same solid, or the same Error;
\* after the first step the running result is the whole first primitive.
C10_FirstStepIsAdd ==
  /\ (recipeState = "running" /\ stepIndex = 1) =>
       WorldPoints(resultBrush[1]) = StepSolid(recipe[1])
  /\ recipeState = "done" =>
       LET ref == UniformFold(FirstAsAdd(recipe), Len(recipe))
       IN  ref.ok /\ WorldPoints(resultBrush[1]) = ref.value[1]
  /\ (recipeState = "failed" /\ recipe # << >>) =>
       LET ref == UniformFold(FirstAsAdd(recipe), Len(recipe))
       IN  ~ ref.ok /\ recipeError = ref.error

\* A recipe whose first step says "subtract" finished with a solid.
C10_Witness ==
  /\ recipeState = "done"
  /\ recipe[1].operation = "subtract"
  /\ recipeMesh # Some({})

\* The recipe has a step after the first whose operation is none of add,
\* subtract, intersect.
KnownOperations == { "add", "subtract", "intersect" }
UnknownOperationAfterFirst(steps) ==
  \E i \in 2..Len(steps) : steps[i].operation \notin KnownOperations

\* The run of executeRecipe has ended, with a mesh or with an Error.
RecipeEnded == recipeState \in { "done", "failed" }

\* The first step at which the loop throws: its shape is unknown, or it is
\* not the first step and its operation is unknown (0 when there is none).
FirstThrowingStep(steps) ==
  LET bad == { i \in 1..Len(steps) :
                 \/ ~ createPrimitive(steps[i].shape, steps[i].params).ok
                 \/ i > 1 /\ steps[i].operation \notin KnownOperations }
  IN  IF bad = { } THEN 0 ELSE CHOOSE i \in bad : \A j \in bad : i <= j

\* C11 as stated: a recipe with an unknown operation after its first step
\* fails with the unknown-operation error and yields no mesh.
C11_UnknownOperationError ==
  (RecipeEnded /\ UnknownOperationAfterFirst(recipe)) =>
    /\ recipeState = "failed"
    /\ recipeError = "Unknown operation"
    /\ recipeMesh = Nil

\* C11 amended: such a recipe always fails and never yields a mesh, the
\* partial result included; the Error is the one of the first step that
\* throws, so it is the unknown-operation error unless that step or an
\* earlier one asks for an unknown shape, whose error is thrown first.
C11_FailsWithoutMesh ==
  /\ recipeState # "done" => recipeMesh = Nil
  /\ (RecipeEnded /\ UnknownOperationAfterFirst(recipe)) =>
       LET i == FirstThrowingStep(recipe)
       IN  /\ recipeState = "failed"
           /\ recipeMesh = Nil
           /\ stepIndex = i - 1
           /\ recipeError =
                IF createPrimitive(recipe[i].shape, recipe[i].params).ok
                THEN "Unknown operation" ELSE "Unknown shape type"

\* Two steps were folded, the third has an unknown operation: the run has
\* failed with the partial result at hand and no mesh.
C11_Witness ==
  /\ recipeState = "failed"
  /\ recipeError = "Unknown operation"
  /\ stepIndex = 2
  /\ resultBrush # Nil /\ WorldPoints(resultBrush[1]) # { }
  /\ recipeMesh = Nil


\* C12: a recipe with zero steps, or without a steps sequence, fails with
\* the empty-recipe error before any primitive is built.
C12_EmptyRecipeError ==
  ((recipe = << >> \/ ~ recipeHasSteps) /\ recipeState # "idle") =>
    /\ recipeState = "failed"
    /\ recipeError = "Recipe has no steps"
    /\ stepIndex = 0
    /\ resultBrush = Nil
    /\ recipeMesh = Nil

\* executeRecipe was called with an empty steps sequence and has thrown.
C12_Witness ==
  /\ recipeHasSteps
  /\ recipe = << >>
  /\ recipeState = "failed"
  /\ recipeError = "Recipe has no steps"


(***************************************************************************)
(* Properties of createPrimitive (specification SpecPrimitive)             *)
(***************************************************************************)

PrimitiveCalled == primitiveCall # Nil
CalledShape  == primitiveCall[1].shape
CalledParams == primitiveCall[1].params
Created      == primitiveResult[1]

\* The groups of synonyms of which a shape needs one key each.
RequiredSlots(shape) ==
  CASE shape = "cylinder" -> { { "diameter" }, { "height" } }
    [] shape = "box"      -> { { "length", "width" }, { "height" }, { "depth", "width" } }
    [] shape = "sphere"   -> { { "diameter" } }
    [] shape = "cone"     -> { { "top_d", "top_diameter" }, { "bottom_d", "bottom_diameter" },
                               { "height" } }
    [] shape = "torus"    -> { { "major_radius", "diameter" }, { "minor_radius", "tube_diameter" } }
    [] OTHER              -> { }

MissingRequired(shape, params) ==
  \E slot \in RequiredSlots(shape) : slot \cap DOMAIN params = { }

\* C13: createPrimitive throws when a key the shape requires is absent after
\* synonym resolution, and never returns a geometry built from an undefined
\* dimension.
C13_MissingParameterError ==
  (PrimitiveCalled /\ MissingRequired(CalledShape, CalledParams)) => ~ Created.ok

\* C14: for a box the first horizontal dimension is length when present and
\* otherwise width, and the third dimension is depth when present and
\* otherwise width, whatever the value of the present key.
C14_BoxSynonyms ==
  ( /\ PrimitiveCalled
    /\ CalledShape = "box"
    /\ ~ MissingRequired("box", CalledParams) )
  => LET params == CalledParams
         first == IF "length" \in DOMAIN params THEN params["length"] ELSE params["width"]
         third == IF "depth" \in DOMAIN params THEN params["depth"] ELSE params["width"]
     IN  /\ Created.ok
         /\ Created.value[1].a = JsNum(first)
         /\ Created.value[1].c = JsNum(third)


(***************************************************************************)
(* Properties of the STL exporters (specification SpecStl)                 *)
(***************************************************************************)

StlExported == stlCall # Nil
ByWeb == stlCall[1].exporter = "exportBinary"
StlInput == stlCall[1].mesh

\* The document the call produced, as an Optional: none when the web
\* exporter threw or the iOS exporter returned nil.
StlDocument == IF ByWeb THEN stlResult[1].value ELSE stlResult[1]

\* The triangles of the input in mesh order, in world coordinates: every
\* index triple of a web mesh (every three vertices without an index); every
\* triple of every element of a node's geometry and of its descendants'.
WebTriangles(mesh) ==
  IF mesh.geometry.position = Nil THEN << >>
  ELSE LET vs == mesh.geometry.position[1]
           ix == IF mesh.geometry.index = Nil THEN [i \in 1..Len(vs) |-> i - 1]
                 ELSE mesh.geometry.index[1]
       IN  [k \in 1..(Len(ix) \div 3) |->
              << applyMatrix4(vs[ix[3 * k - 2] + 1], mesh.matrix),
                 applyMatrix4(vs[ix[3 * k - 1] + 1], mesh.matrix),
                 applyMatrix4(vs[ix[3 * k] + 1], mesh.matrix) >>]

ElementTriangles(placed, element) ==
  LET vs == vertexSource(placed.geometry)
      at(i) == << vs[i + 1][1] + placed.position[1], vs[i + 1][2] + placed.position[2],
                  vs[i + 1][3] + placed.position[3] >>
  IN  [k \in 1..Len(element) |-> << at(element[k][1]), at(element[k][2]), at(element[k][3]) >>]

NodeTriangles(node, onlyFirstElement) ==
  LET placed == collectGeometries(node)
      of(g) == LET es == geometryElements(g.geometry)
                   used == IF onlyFirstElement /\ es # << >> THEN << es[1] >> ELSE es
               IN  Flatten([e \in 1..Len(used) |-> ElementTriangles(g, used[e])])
  IN  Flatten([n \in 1..Len(placed) |-> of(placed[n])])

InputTriangles == IF ByWeb THEN WebTriangles(StlInput) ELSE NodeTriangles(StlInput, FALSE)

DecodeLittleEndian32(bytes) ==
  bytes[1] + 256 * bytes[2] + 256 * 256 * bytes[3] + 256 * 256 * 256 * bytes[4]

\* C15: for a mesh of N >= 1 triangles the document is 84 + 50 * N bytes:
\* an 80-byte header of text and zero padding, N as a little-endian 32-bit
\* count, and N records of 50 bytes, N being the number of all triangles of
\* the mesh (of every element of the node and its descendants on iOS).
C15_DocumentLayout ==
  (StlExported /\ Len(InputTriangles) >= 1) =>
    LET N == Len(InputTriangles)
    IN  /\ StlDocument # Nil
        /\ StlDocument[1].byteLength = 84 + 50 * N
        /\ StlDocument[1].headerText + StlDocument[1].headerZeros = 80
        /\ StlDocument[1].headerZeros >= 0
        /\ DecodeLittleEndian32(StlDocument[1].count) = N
        /\ Len(StlDocument[1].records) = N
        /\ \A k \in 1..N : StlDocument[1].records[k].attribute = 0

\* C16: a mesh with zero triangles is rejected: no document is returned.
C16_EmptyGeometryRejected ==
  (StlExported /\ Len(InputTriangles) = 0) => StlDocument = Nil

VDot(a, b) == a[1] * b[1] + a[2] * b[2] + a[3] * b[3]

\* The triangles the exporter writes: all of a web mesh; of a node, those
\* of the first element of each geometry.
WrittenTriangles == IF ByWeb THEN WebTriangles(StlInput) ELSE NodeTriangles(StlInput, TRUE)

\* C17: the records follow the order of the triangles in the mesh, each
\* holds its triangle's vertices in the source order v1, v2, v3, its normal
\* has the direction of (v2 - v1) x (v3 - v1), and the normal of a
\* zero-area triangle is the zero vector, the export succeeding all the same.
C17_OrderWindingNormal ==
  (StlExported /\ Len(WrittenTriangles) >= 1) =>
    /\ StlDocument # Nil
    /\ Len(StlDocument[1].records) = Len(WrittenTriangles)
    /\ \A k \in 1..Len(WrittenTriangles) :
         LET t == WrittenTriangles[k]
             r == StlDocument[1].records[k]
             c == VCross(VSub(t[2], t[1]), VSub(t[3], t[1]))
         IN  /\ << r.v1, r.v2, r.v3 >> = t
             /\ VCross(r.normal, c) = << 0, 0, 0 >>
             /\ IF c = << 0, 0, 0 >> THEN r.normal = << 0, 0, 0 >>
                ELSE VDot(r.normal, c) > 0

\* A turned and moved mesh of a zero-area triangle followed by a triangle
\* wound the other way round, exported.
C17_Witness ==
  /\ StlExported
  /\ ByWeb
  /\ StlInput.matrix.turns = 1
  /\ StlDocument # Nil
  /\ Len(StlDocument[1].records) = 2
  /\ StlDocument[1].records[1].normal = << 0, 0, 0 >>
  /\ StlDocument[1].records[2].normal # << 0, 0, 0 >>

\* The same on iOS: a node of custom geometry with a zero-area triangle.
StlSwiftZeroAreaReached ==
  /\ StlExported
  /\ ~ ByWeb
  /\ StlDocument # Nil
  /\ \E k \in 1..Len(StlDocument[1].records) : StlDocument[1].records[k].normal = << 0, 0, 0 >>


\* Whatever the exporter writes is laid out as a document of that many
\* triangles: header, count and records agree with each other.
StlLayoutOfWritten ==
  (StlExported /\ StlDocument # Nil) =>
    LET n == Len(WrittenTriangles)
    IN  /\ StlDocument[1].byteLength = 84 + 50 * n
        /\ StlDocument[1].headerText + StlDocument[1].headerZeros = 80
        /\ DecodeLittleEndian32(StlDocument[1].count) = n
        /\ Len(StlDocument[1].records) = n

\* On the web every triangle of the mesh is written.
StlWebWritesAll ==
  (StlExported /\ ByWeb /\ StlDocument # Nil) =>
    Len(StlDocument[1].records) = Len(InputTriangles)


(***************************************************************************)
(* Properties of the web app (specification SpecWeb)                       *)
(***************************************************************************)

MeasurementIds(k) == { "dist_" \o ToString(i) : i \in 1..k }

\* C19: each pair of placed points creates a measurement: after 2k points
\* have been placed on the reference plane without clearing, exactly the k
\* measurements dist_1 .. dist_k are recorded.
C19_PairsMeasured ==
  \A k \in 0..(MaxPlaced \div 2) :
    pointsPlaced = 2 * k => DOMAIN measurements = MeasurementIds(k)

\* What addPoint's limit leaves: the first two points placed are kept, and
\* there is the one measurement dist_1 once there are two.
FirstPairMeasured ==
  /\ Len(points) = (IF pointsPlaced < 2 THEN pointsPlaced ELSE 2)
  /\ DOMAIN measurements = (IF Len(points) = 2 THEN MeasurementIds(1) ELSE { })

\* Four points were placed without clearing.
FourPlacedReached ==
  /\ pointsPlaced = 4
  /\ measurements # << >>

\* The tap's ray met the reference plane.
MeetsPlane(event) == event.intersection # Nil

DemoMeasuredReached ==
  /\ demoMode
  /\ Len(points) = 2
  /\ measurements # << >>

(***************************************************************************)
(* Properties of suggestPart (specification SpecSuggest)                   *)
(***************************************************************************)

SuggestCalled == suggestCall # Nil
SuggestReply == suggestCall[1].reply
Suggested == suggestResult[1].value[1]

\* The request failed, the answer did not parse, or the suggestion parsed
\* lacks part_type or parameters.
AiPathFailed ==
  \/ SuggestReply.outcome # "parsed"
  \/ SuggestReply.suggestion[1].part_type = Nil
  \/ SuggestReply.suggestion[1].parameters = Nil

FallbackTypes == { "shim", "washer", "l_bracket", "u_clamp", "face_plate", "clip" }

\* PART_TYPES[type].requiredParams
RequiredParams(type) ==
  CASE type = "shim"       -> { "length", "width", "thickness" }
    [] type = "washer"     -> { "outer_d", "inner_d", "thickness" }
    [] type = "l_bracket"  -> { "leg_a", "leg_b", "thickness" }
    [] type = "u_clamp"    -> { "width", "height", "depth", "thickness" }
    [] type = "face_plate" -> { "length", "width", "thickness" }
    [] type = "clip"       -> { "outer_d", "inner_d", "thickness", "gap_angle" }

\* C21: suggestPart never rejects; whenever the AI path fails it resolves
\* with the fallback suggestion, whose part_type is one of the six part
\* types and whose required parameters all hold a positive number.
C21_NeverRejects ==
  SuggestCalled =>
    /\ suggestResult[1].ok
    /\ AiPathFailed =>
         /\ Suggested.part_type # Nil
         /\ Suggested.part_type[1] \in FallbackTypes
         /\ Suggested.parameters # Nil
         /\ \A k \in RequiredParams(Suggested.part_type[1]) :
              /\ k \in DOMAIN Suggested.parameters[1].numbers
              /\ Suggested.parameters[1].numbers[k] > 0
         /\ Suggested.notes = "Generated using keyword matching (AI unavailable)"

\* The answer parsed to a suggestion without parameters; the call resolved
\* with a washer whose outer diameter is the first measurement.
C21_Witness ==
  /\ SuggestCalled
  /\ SuggestReply.outcome = "parsed"
  /\ SuggestReply.suggestion[1].parameters = Nil
  /\ suggestCall[1].measurements = << 500, 300 >>
  /\ suggestResult[1].ok
  /\ Suggested.part_type = Some("washer")
  /\ Suggested.parameters[1].numbers["outer_d"] = 500
  /\ Suggested.parameters[1].numbers["thickness"] = 20

\* C22: every suggestion validateSuggestion returns satisfies
\* validateParameters under the same constraints: thickness >= min_thickness,
\* every hole diameter >= min_hole_diameter, every number <= max_dimension.
C22_ClampedIsValid ==
  (SuggestCalled /\ SuggestReply.outcome = "parsed"
     /\ validateSuggestion(SuggestReply.suggestion[1]).ok) =>
    validateParameters(Suggested.parameters[1]).valid

\* What the clamping does reach: the one value it lets through is a
\* thickness of 0.
ClampedButZeroThickness ==
  (SuggestCalled /\ SuggestReply.outcome = "parsed"
     /\ validateSuggestion(SuggestReply.suggestion[1]).ok) =>
    \/ validateParameters(Suggested.parameters[1]).valid
    \/ /\ "thickness" \in DOMAIN Suggested.parameters[1].numbers
       /\ Suggested.parameters[1].numbers["thickness"] = 0
       /\ validateParameters(Suggested.parameters[1]).errors = { "Thickness" }

\* A negative thickness, a narrow hole and a length beyond the bed were clamped.
ClampedReached ==
  /\ SuggestCalled
  /\ SuggestReply.outcome = "parsed"
  /\ SuggestReply.suggestion[1].parameters # Nil
  /\ SuggestReply.suggestion[1].parameters[1].holes = Some(<< 10, 30 >>)
  /\ "thickness" \in DOMAIN SuggestReply.suggestion[1].parameters[1].numbers
  /\ SuggestReply.suggestion[1].parameters[1].numbers["thickness"] = -10
  /\ suggestResult[1].ok
  /\ Suggested.parameters[1] =
       Parameters([ length |-> max_dimension, thickness |-> min_thickness ], Some(<< 20, 30 >>))

(***************************************************************************)
(* Preview and script of one bag (specification Spec)                      *)
(***************************************************************************)

\* The archetype a branch of generateFromAI stands for, by the line it logs.
PreviewArchetype(log) ==
  CASE log = "Phone Case/Enclosure" -> "enclosure"
    [] log = "L-Bracket"            -> "bracket"
    [] log = "Cap/Lid with Top"     -> "cap"
    [] log = "Solid Cylinder/Knob"  -> "solid cylinder"
    [] log = "Rectangle/Shim/Plate" -> "block"
    [] log = "Sphere/Ball"          -> "sphere"
    [] OTHER                        -> "fallback"

\* The archetype of a script, by its template.
ScriptArchetype(template) ==
  CASE template = "PHONE CASE"       -> "enclosure"
    [] template = "L-BRACKET"        -> "bracket"
    [] template = "CAP"              -> "cap"
    [] template = "SOLID CYLINDER"   -> "solid cylinder"
    [] template = "RECTANGULAR PART" -> "block"
    [] OTHER                         -> "fallback"

\* C23: generateFromAI and generateOpenSCADCode choose the same archetype
\* for every parameter bag: the part previewed and the script exported for
\* it are of one archetype.
C23_SameArchetype ==
  (FromSuggestion /\ scadFile # NoScad) =>
    PreviewArchetype(lastLog) = ScriptArchetype(scadFile.template)

\* Bags on which the two do agree: a cap previewed and scripted.
BothCapReached ==
  /\ FromSuggestion
  /\ lastLog = "Cap/Lid with Top"
  /\ scadFile.template = "CAP"

\* C24: a recorded measurement is never ignored by part generation: when
\* getMeasurements() is not empty, getMeasurementsForAI() is not empty.
C24_MeasurementReachesAI ==
  DOMAIN getMeasurements(measurements) # { } =>
    DOMAIN getMeasurementsForAI(measurements) # { }

\* What generatePart is handed whatever was measured: nothing.
NothingReachesAI == DOMAIN getMeasurementsForAI(measurements) = { }

(***************************************************************************)
(* Properties of the session (specification SpecSession)                   *)
(***************************************************************************)

\* Nothing has happened since the clear button was last clicked: clearAll is
\* the only handler that shows this status.
JustCleared == webStatus = "Ready to measure"

\* The user starts a generation.
GenerationStarts == GeneratePart \/ GenerateCustomShape

\* C25: a result that arrives late is never installed after a clear: once
\* clearAll has run, currentPart stays empty and the export button stays
\* hidden until the user starts a new generation, even when a request made
\* before the clear is answered after it.
C25_NoLateInstall ==
  [][(JustCleared /\ ~ GenerationStarts) => (currentPart' = Nil /\ ~ exportBtn')]_vars

\* A clear with a request in flight.
ClearedWhilePending ==
  JustCleared /\ currentPart = Nil /\ ~ exportBtn /\ (pendingPart # Nil \/ pendingShape # Nil)

\* The name the part held in currentPart stands for: its part_type when
\* generatePart made it, its recipe's description, sanitized, when
\* generateCustomShape made it.
NameOfPart(part) ==
  IF part.from = "generatePart" THEN PartName(part.part_type, << >>)
  ELSE PartName("", trimUnderscores(replaceRuns(toLowerCase(part.description))))

\* C27: the exported file is named after the part held in currentPart, for
\* every sequence of generatePart, generateCustomShape and clearAll.
C27_FileNamedAfterPart ==
  lastDownload # Nil => lastDownload[1].partName = NameOfPart(lastDownload[1].part)

\* The fallback lid exported under its own name, simple_lid.
LidFileReached ==
  /\ lastDownload # Nil
  /\ lastDownload[1].part.from = "generateCustomShape"
  /\ lastDownload[1].partName =
       PartName("", << "s", "i", "m", "p", "l", "e", "_", "l", "i", "d" >>)

\* A step of generateCustomShape that ends in its catch block.
CustomShapeFails ==
  /\ GenerateCustomShape \/ GenerateCustomShapeResume
  /\ webStatus' \notin { "AI generating shape recipe...", "Custom shape generated!" }

\* C28: a failed custom-shape generation leaves the session unchanged:
\* currentPart, currentRecipe and currentSpec keep the values they had.
C28_FailureLeavesSession ==
  [][CustomShapeFails => UNCHANGED << currentPart, currentRecipe, currentSpec >>]_vars

\* executeRecipe has thrown on the knob's second step.
ShapeFailedReached ==
  /\ webStatus = "Failed: Unknown operation"
  /\ currentRecipe # Nil
  /\ currentRecipe[1].description = << "K", "n", "o", "b" >>

\* What a failed generation does keep: the part and the suggestion.
FailureKeepsPartAndSpec ==
  [][CustomShapeFails => UNCHANGED << currentPart, currentSpec >>]_vars

\* C30: every call of generatePart leaves a final status: once the call has
\* returned the status line does not read 'Generating part...'.
C30_StatusFinal == webStatus = "Generating part..." => pendingPart # Nil

\* generatePart waiting for the suggestion, the status reading Generating.
GeneratingWhilePending == webStatus = "Generating part..." /\ pendingPart # Nil

(***************************************************************************)
(* Properties of ARManager.initialize (specification SpecWeb)              *)
(***************************************************************************)

\* C29: initialize resolves with true only when scene, camera and renderer
\* have been created, for every preferredMode and every outcome of the
\* camera request.
C29_TrueMeansCreated ==
  arInitialized = Some(TRUE) =>
    (arObjects.scene /\ arObjects.camera /\ arObjects.renderer)

\* For the three documented modes it is so: initialize, called with 'auto',
\* 'camera' or 'demo', resolves with true only over a full scene.
DocumentedModesCreated ==
  \A preferredMode \in { "auto", "camera", "demo" }, cameraOutcome \in CameraOutcomes,
     webgl \in BOOLEAN :
    LET done == initialize(preferredMode, cameraOutcome, webgl)
    IN  done.result =>
          (done.objects.scene /\ done.objects.camera /\ done.objects.renderer)

\* initialize has resolved with true over a scene it created.
InitializedReached == arInitialized = Some(TRUE) /\ arObjects.scene /\ arObjects.listening

(***************************************************************************)
(* Properties of the iOS measurements (specification SpecMeasure)          *)
(***************************************************************************)

LineIds == { measurementLines[i].id : i \in DOMAIN measurementLines }
ListedIds == { stateMeasurements[i] : i \in DOMAIN stateMeasurements }
LineNodes == { measurementLines[i].nodes[j] : i \in DOMAIN measurementLines, j \in 1..4 }

\* C26: after any sequence of taps, single removals and clears, the scene
\* holds the nodes of exactly the measurements listed: the ids in
\* measurementLines are the ids in measurements, and the nodes under the
\* rootNode are those lines' nodes and the pending point.
C26_NodesMatchMeasurements ==
  /\ LineIds = ListedIds
  /\ rootNodes = LineNodes \cup (IF pendingPoint = Nil THEN { } ELSE { pendingPoint[1] })

\* Two measurements listed, each with its nodes in the scene.
TwoMeasuredReached ==
  /\ Len(stateMeasurements) = 2
  /\ LineIds = ListedIds
  /\ Cardinality(rootNodes) = 8

\* What does hold: nothing is in the scene that is not a listed
\* measurement's node or the pending point.
SceneWithinMeasurements ==
  /\ LineIds \subseteq ListedIds
  /\ rootNodes = LineNodes \cup (IF pendingPoint = Nil THEN { } ELSE { pendingPoint[1] })


====
